---- MODULE Spec2Model ----
(***************************************************************************)
(* A model of the concurrency core of bonsaidb: the key/value store's      *)
(* compare-and-swap loops, the key expiration task, the view maintenance   *)
(* scheduler, the storage sessions and the client's reconnecting worker.   *)
(* Each subsystem has its own next-state relation and specification; the   *)
(* variables of the other subsystems stay at their initial values.         *)
(***************************************************************************)
EXTENDS Integers, Sequences, FiniteSets, TLC

VARIABLES
    \* key/value store
    kv_tree,        \* the "kv" tree restricted to one full key: Option<Entry>
    kvTask,         \* per blocking task: position and locals of its operation
    \* view maintenance
    last_transaction_id,        \* the database's last transaction id, 0 for None
    view_versions,              \* persisted version of the view: Option<u64>
    document_map,               \* document id -> view version that mapped it
    invalidated_docs,           \* document ids needing a remap
    completed_integrity_checks, \* Statuses: is the view's key in the set
    view_update_last_status,    \* Statuses: Option<last transaction indexed>
    jobs,                       \* the job manager: per key none, queued, running
    scanner,                    \* the running IntegrityScanner::execute
    mapper,                     \* the running Mapper::execute
    caller,                     \* per caller of update_view_if_needed
    \* key expiration
    now,                \* Timestamp::now()
    key_tree,           \* the full keys present in the "kv" tree
    updates,            \* the channel of ExpirationUpdates
    sent,               \* number of updates sent so far
    senders,            \* number of senders of the update channel alive
    tracked_keys,       \* expiration_task: key -> deadline
    expiration_order,   \* expiration_task: keys, soonest deadline first
    expTask,            \* expiration_task: position and locals
    exp_hist,           \* per key: what the task last integrated and did
    \* storage sessions
    available_databases,    \* Data: names of the databases that exist
    database_records,       \* admin database: the names of the Database records
    sessions,               \* AuthenticatedSessions: ids holding an Arc
    last_session_id,        \* AuthenticatedSessions: last id handed out
    subscribers,            \* SessionSubscribers: id -> Option<session id>
    subscribers_by_session, \* SessionSubscribers: session id -> ids
    last_id,                \* SessionSubscribers: last subscriber id
    storage_handles,        \* the Storage values alive in the process
    storage_call,           \* the StorageConnection call made by the last step
    \* client worker
    request_id,             \* Data::request_id: the number of fetch_adds so far
    request_queue,          \* the channel from request_sender to the worker
    results,                \* per request: what its responder was sent
    written,                \* per request: times it was written to a transport
    worker,                 \* reconnecting_client_loop: position and locals
    connection,             \* the transport: none, open or broken
    outstanding_requests,   \* the connection's OutstandingRequestMap: id -> request
    reader,                 \* the spawned process task: off, running, ...
    at_server,              \* requests the server has and has not answered
    payloads,               \* responses on their way to the reader
    \* pub/sub relay
    relay_subscribers,      \* Relay: subscriber id -> its queue of messages
    relay_topics,           \* Relay: topic -> ids of the subscribers to it
    subscribed_to,          \* per subscriber: topics its completed calls left it on
    subscription_calls,     \* number of subscribe_to and unsubscribe_from calls
    published,              \* the messages published, with whom they were owed to
    received,               \* per subscriber: messages taken from its receiver
    \* database names
    name_input,             \* the name handed to validate_name
    name_result,            \* what validate_name returned, "none" before the call
    \* database and schema registry
    schemas,                \* Data::schemas: schema name -> the opener's schema type
    database_call,          \* the StorageInstance call made by the last step
    \* numeric operations
    numeric_call,           \* the operands handed to increment or decrement
    numeric_result,         \* what the call returned, None before it
    \* locks of storage.rs Data
    lock_threads,           \* per thread: the storage operation it runs, its position and the guards it holds
    \* page codec
    codec_input,            \* the TreeVault and the payload or stored page handed to it
    page,                   \* what encrypt returned or what was read from disk, None before
    decoded,                \* what decrypt returned for the page, None before
    \* id-less responses of the client
    client_subscribers,     \* Client: subscriber id -> the sender of its queue
    api_responses,          \* per custom api name: responses its callback received
    adhoc,                  \* id-less payloads processed: their number and the last one
    \* key/value operations racing to the expiration task
    kv_pending,             \* per caller: the expiration update its operation has yet to send
    kv_expiration           \* per full key: the expiration of the entry last written

kvVars == <<kv_tree, kvTask>>
viewVars == <<last_transaction_id, view_versions, document_map, invalidated_docs,
              completed_integrity_checks, view_update_last_status, jobs, scanner,
              mapper, caller>>
expVars == <<now, key_tree, updates, sent, senders, tracked_keys,
             expiration_order,
             expTask, exp_hist>>
storageVars == <<available_databases, database_records, sessions,
                 last_session_id, subscribers,
                 subscribers_by_session, last_id, storage_handles, storage_call>>
clientVars == <<request_id, request_queue, results, written, worker, connection,
                outstanding_requests, reader, at_server, payloads>>
pubsubVars == <<relay_subscribers, relay_topics, subscribed_to,
                subscription_calls, published, received>>
nameVars == <<name_input, name_result>>
registryVars == <<schemas, database_call>>
numericVars == <<numeric_call, numeric_result>>
locksVars == <<lock_threads>>
codecVars == <<codec_input, page, decoded>>
adhocVars == <<client_subscribers, api_responses, adhoc>>
raceVars == <<kv_pending, kv_expiration>>
vars == <<kvVars, viewVars, expVars, storageVars, clientVars, pubsubVars,
          nameVars, registryVars, numericVars, locksVars, codecVars,
          adhocVars, raceVars>>
notKvVars == <<viewVars, expVars, storageVars, clientVars, pubsubVars,
               nameVars, registryVars, numericVars, locksVars, codecVars,
               adhocVars, raceVars>>
notViewVars == <<kvVars, expVars, storageVars, clientVars, pubsubVars,
                 nameVars, registryVars, numericVars, locksVars, codecVars,
                 adhocVars, raceVars>>
notExpVars == <<kvVars, viewVars, storageVars, clientVars, pubsubVars,
                nameVars, registryVars, numericVars, locksVars, codecVars,
                adhocVars, raceVars>>
notStorageVars == <<kvVars, viewVars, expVars, clientVars, pubsubVars,
                    nameVars, registryVars, numericVars, locksVars, codecVars,
                    adhocVars, raceVars>>
notClientVars == <<kvVars, viewVars, expVars, storageVars, pubsubVars,
                   nameVars, registryVars, numericVars, locksVars, codecVars,
                   adhocVars, raceVars>>
notPubsubVars == <<kvVars, viewVars, expVars, storageVars, clientVars,
                   nameVars, registryVars, numericVars, locksVars, codecVars,
                   adhocVars, raceVars>>
notNameVars == <<kvVars, viewVars, expVars, storageVars, clientVars,
                 pubsubVars, registryVars, numericVars, locksVars, codecVars,
                 adhocVars, raceVars>>
notNumericVars == <<kvVars, viewVars, expVars, storageVars, clientVars,
                    pubsubVars, nameVars, registryVars, locksVars, codecVars,
                    adhocVars, raceVars>>
notLocksVars == <<kvVars, viewVars, expVars, storageVars, clientVars,
                  pubsubVars, nameVars, registryVars, numericVars, codecVars,
                  adhocVars, raceVars>>
notCodecVars == <<kvVars, viewVars, expVars, storageVars, clientVars,
                  pubsubVars, nameVars, registryVars, numericVars, locksVars,
                  adhocVars, raceVars>>
notAdhocVars == <<kvVars, viewVars, expVars, storageVars, clientVars,
                  pubsubVars, nameVars, registryVars, numericVars, locksVars,
                  codecVars, raceVars>>
notRaceVars == <<kvVars, viewVars, expVars, storageVars, clientVars,
                 pubsubVars, nameVars, registryVars, numericVars, locksVars,
                 codecVars, adhocVars>>
\* The registry's actions also write available_databases.
notRegistryVars == <<kvVars, viewVars, expVars, sessions, last_session_id,
                     subscribers, subscribers_by_session, last_id,
                     storage_handles, storage_call, clientVars, pubsubVars,
                     nameVars,
                     numericVars,
                     locksVars,
                     codecVars,
                     adhocVars,
                     raceVars>>

(***************************************************************************)
(* Option<T> is a set with at most one element.                            *)
(***************************************************************************)
None == {}
Some(x) == {x}
Unwrap(o) == CHOOSE x \in o : TRUE

(***************************************************************************)
(* Key/value store: keyvalue.rs                                            *)
(***************************************************************************)

\* Width of the integer types of the model; stands for the 64 bits of u64/i64.
IntBits == 3
\* Number of concurrent key/value operations on the one full key.
NumKvTasks == 3

KvTasks == 1..NumKvTasks

Pow2(n) == 2 ^ n
U64Max == Pow2(IntBits) - 1
I64Max == Pow2(IntBits - 1) - 1
I64Min == 0 - Pow2(IntBits - 1)

UnsignedInteger(n) == [variant |-> "UnsignedInteger", n |-> n]
Integer(n) == [variant |-> "Integer", n |-> n]
Bytes(n) == [variant |-> "Bytes", n |-> n]

\* Two's complement reinterpretation (`as u64`, `as i64`) and wrapping.
WrapU64(n) == n % Pow2(IntBits)
WrapI64(n) == ((n - I64Min) % Pow2(IntBits)) + I64Min
ClampU64(n) == IF n < 0 THEN 0 ELSE IF n > U64Max THEN U64Max ELSE n
ClampI64(n) == IF n < I64Min THEN I64Min ELSE IF n > I64Max THEN I64Max ELSE n

as_i64_lossy(existing, saturating) ==
    IF existing.variant = "Integer" THEN existing.n
    ELSE IF saturating THEN ClampI64(existing.n) ELSE WrapI64(existing.n)

as_u64_lossy(existing, saturating) ==
    IF existing.variant = "UnsignedInteger" THEN existing.n
    ELSE IF saturating THEN ClampU64(existing.n) ELSE WrapU64(existing.n)

\* increment handed in without saturating_add: it always wraps.
increment_wrapping(existing, amount, saturating) ==
    IF amount.variant = "Integer"
    THEN Integer(WrapI64(as_i64_lossy(existing, saturating) + amount.n))
    ELSE UnsignedInteger(WrapU64(as_u64_lossy(existing, saturating) + amount.n))

increment(existing, amount, saturating) ==
    IF amount.variant = "Integer"
    THEN LET existing_value == as_i64_lossy(existing, saturating)
         IN  Integer(IF saturating THEN ClampI64(existing_value + amount.n)
                                   ELSE WrapI64(existing_value + amount.n))
    ELSE LET existing_value == as_u64_lossy(existing, saturating)
         IN  UnsignedInteger(IF saturating THEN ClampU64(existing_value + amount.n)
                                           ELSE WrapU64(existing_value + amount.n))

decrement(existing, amount, saturating) ==
    IF amount.variant = "Integer"
    THEN LET existing_value == as_i64_lossy(existing, saturating)
         IN  Integer(IF saturating THEN ClampI64(existing_value - amount.n)
                                   ELSE WrapI64(existing_value - amount.n))
    ELSE LET existing_value == as_u64_lossy(existing, saturating)
         IN  UnsignedInteger(IF saturating THEN ClampU64(existing_value - amount.n)
                                           ELSE WrapU64(existing_value - amount.n))

Entry(value, expiration) == [value |-> value, expiration |-> expiration]

\* Command::Set / Command::Increment / Command::Decrement as submitted.
SetCommand(value, expiration, keep_existing_expiration, check) ==
    [command |-> "Set", value |-> value, expiration |-> expiration,
     keep_existing_expiration |-> keep_existing_expiration, check |-> check,
     amount |-> UnsignedInteger(0), saturating |-> FALSE]
NumericCommand(command, amount, saturating) ==
    [command |-> command, value |-> amount, expiration |-> None,
     keep_existing_expiration |-> FALSE, check |-> "Any",
     amount |-> amount, saturating |-> saturating]

\* The commands the model's tasks draw from.
KvCommands ==
    { SetCommand(Bytes(0), None, FALSE, "Any"),
      SetCommand(UnsignedInteger(U64Max), Some(1), FALSE, "OnlyIfVacant"),
      SetCommand(UnsignedInteger(1), None, TRUE, "OnlyIfPresent"),
      NumericCommand("Increment", UnsignedInteger(1), FALSE),
      NumericCommand("Decrement", Integer(1), TRUE) }

IdleTask ==
    [pc |-> "idle", op |-> NumericCommand("Increment", UnsignedInteger(0), FALSE),
     current |-> None, entry |-> Entry(UnsignedInteger(0), None),
     updated |-> FALSE, inserted |-> FALSE, conflicted |-> FALSE,
     output |-> "Pending"]

\* The result of one operation applied alone to `stored` (no interleaving):
\* what the closure of execute_set_operation, or the body of the loop of
\* execute_numeric_operation, computes from the value it observed.
should_update(check, existing_value) ==
    CASE check = "OnlyIfPresent" -> existing_value # None
      [] check = "OnlyIfVacant" -> existing_value = None
      [] OTHER -> TRUE

\* entry.expiration after the closure ran against existing_value.
SetEntryAfter(entry, op, existing_value) ==
    IF should_update(op.check, existing_value)
          /\ op.keep_existing_expiration /\ existing_value # None
    THEN Entry(entry.value, Unwrap(existing_value).expiration)
    ELSE entry

\* The closure's return value: the bytes to store.
SetNext(entry, op, existing_value) ==
    IF should_update(op.check, existing_value)
    THEN Some(SetEntryAfter(entry, op, existing_value))
    ELSE existing_value

\* The entry the numeric loop works on, handed in for the missing key: one.
NumericExistingOne(current) ==
    IF current = None THEN Entry(UnsignedInteger(1), None) ELSE Unwrap(current)
\* The entry the numeric loop works on: the stored one, or
\* UnsignedInteger(0) without expiration for a missing key.
NumericExisting(current) ==
    IF current = None THEN Entry(UnsignedInteger(0), None) ELSE Unwrap(current)

NumericNext(op, current) ==
    LET entry == NumericExisting(current)
    IN  Entry(IF op.command = "Increment"
              THEN increment(entry.value, op.amount, op.saturating)
              ELSE decrement(entry.value, op.amount, op.saturating),
              entry.expiration)

\* tree.compare_and_swap(key, old, new) succeeds when the stored bytes equal old.
CasSucceeds(old) == kv_tree = old

\* The `old` argument the numeric loop hands to compare_and_swap.
NumericCasOldBlind(t) == kv_tree
NumericCasOld(t) == kvTask[t].current

\* The `old` argument fetch_and_update_no_copy hands to compare_and_swap.
SetCasOld(t) == kvTask[t].current

\* Command::Delete as submitted.
DeleteCommand ==
    [command |-> "Delete", value |-> Bytes(0), expiration |-> None,
     keep_existing_expiration |-> FALSE, check |-> "Any",
     amount |-> UnsignedInteger(0), saturating |-> FALSE]

\* The commands of the callers that set with and without
\* keep_existing_expiration while others delete the key.
KeepCommands ==
    { SetCommand(Bytes(0), Some(1), FALSE, "Any"),
      SetCommand(Bytes(1), Some(2), TRUE, "Any"),
      SetCommand(Bytes(1), None, TRUE, "OnlyIfPresent"),
      DeleteCommand }

\* execute_key_operation: a task picks a command of `commands`; the operation
\* starts with tree.get(full_key).
KvBeginWith(t, commands) ==
    /\ kvTask[t].pc = "idle"
    /\ \E op \in commands :
          kvTask' = [kvTask EXCEPT ![t] =
                        [pc |-> "loop", op |-> op, current |-> kv_tree,
                         entry |-> Entry(op.value, op.expiration),
                         updated |-> FALSE, inserted |-> FALSE,
                         conflicted |-> FALSE, output |-> "Pending"]]
    /\ UNCHANGED <<notKvVars, kv_tree>>
KvBegin(t) == KvBeginWith(t, KvCommands)

\* execute_delete_operation: tree.remove(full_key).
KvDeleteStep(t) ==
    /\ kvTask[t].pc = "loop"
    /\ kvTask[t].op.command = "Delete"
    /\ kv_tree' = None
    /\ kvTask' = [kvTask EXCEPT ![t].pc = "done", ![t].current = kv_tree,
                     ![t].output = IF kv_tree # None THEN "Deleted"
                                   ELSE "NotChanged"]
    /\ UNCHANGED notKvVars

\* One iteration of the loop of execute_numeric_operation.
KvNumericStep(t) ==
    LET task == kvTask[t] IN
    /\ task.pc = "loop"
    /\ task.op.command \in {"Increment", "Decrement"}
    /\ IF NumericExisting(task.current).value.variant = "Bytes"
       THEN /\ kvTask' = [kvTask EXCEPT ![t].pc = "done", ![t].output = "NotNumeric"]
            /\ UNCHANGED kv_tree
       ELSE IF CasSucceeds(NumericCasOld(t))
            THEN /\ kv_tree' = Some(NumericNext(task.op, task.current))
                 /\ kvTask' = [kvTask EXCEPT ![t].pc = "done", ![t].output = "Value",
                                  ![t].entry = NumericNext(task.op, task.current)]
            ELSE /\ kvTask' = [kvTask EXCEPT ![t].current = kv_tree,
                                  ![t].conflicted = TRUE]
                 /\ UNCHANGED kv_tree
    /\ UNCHANGED notKvVars

\* One iteration of the loop of fetch_and_update_no_copy with the closure of
\* execute_set_operation; on success the tail of execute_set_operation runs.
KvSetStep(t) ==
    LET task == kvTask[t]
        su == should_update(task.op.check, task.current)
        updated == task.updated \/ su
        inserted == IF su THEN task.current = None ELSE task.inserted
        entry == SetEntryAfter(task.entry, task.op, task.current)
        next == SetNext(task.entry, task.op, task.current)
    IN
    /\ task.pc = "loop"
    /\ task.op.command = "Set"
    /\ IF CasSucceeds(SetCasOld(t))
       THEN /\ kv_tree' = next
            /\ kvTask' = [kvTask EXCEPT ![t].pc = "done", ![t].entry = entry,
                             ![t].updated = updated, ![t].inserted = inserted,
                             ![t].output = IF ~updated THEN "NotChanged"
                                           ELSE IF inserted THEN "Inserted"
                                           ELSE "Updated"]
       ELSE /\ kvTask' = [kvTask EXCEPT ![t].current = kv_tree, ![t].entry = entry,
                             ![t].updated = updated, ![t].inserted = inserted,
                             ![t].conflicted = TRUE]
            /\ UNCHANGED kv_tree
    /\ UNCHANGED notKvVars

InitKv ==
    /\ kv_tree = None
    /\ kvTask = [t \in KvTasks |-> IdleTask]
QuietKv == InitKv

NextKv ==
    \E t \in KvTasks : KvBegin(t) \/ KvNumericStep(t) \/ KvSetStep(t)
NextKvKeep ==
    \E t \in KvTasks :
        KvBeginWith(t, KeepCommands) \/ KvSetStep(t) \/ KvDeleteStep(t)

(***************************************************************************)
(* Numeric operations: keyvalue.rs increment, decrement.                   *)
(* One call with operands drawn from every integer Numeric of the width.   *)
(***************************************************************************)

Numerics ==
    {Integer(n) : n \in I64Min..I64Max} \cup {UnsignedInteger(n) : n \in 0..U64Max}

\* The op argument of execute_numeric_operation applied to its operands.
NumericCall ==
    /\ numeric_result = None
    /\ numeric_result' = Some(
          IF numeric_call.command = "Increment"
          THEN increment(numeric_call.existing, numeric_call.amount,
                         numeric_call.saturating)
          ELSE decrement(numeric_call.existing, numeric_call.amount,
                         numeric_call.saturating))
    /\ UNCHANGED <<numeric_call, notNumericVars>>

InitNumeric ==
    /\ numeric_call \in [command : {"Increment", "Decrement"}, existing : Numerics,
                         amount : Numerics, saturating : BOOLEAN]
    /\ numeric_result = None
QuietNumeric ==
    /\ numeric_call = [command |-> "Increment", existing |-> UnsignedInteger(0),
                       amount |-> UnsignedInteger(0), saturating |-> FALSE]
    /\ numeric_result = None
NextNumeric == NumericCall

(***************************************************************************)
(* View maintenance: tasks.rs, views/integrity_scanner.rs.                 *)
(* One database, one collection, one view.  Every transaction inserts one  *)
(* document whose id is the transaction's id.                              *)
(***************************************************************************)

\* Number of concurrent callers of update_view_if_needed.
NumCallers == 2
\* Transactions the database commits at most.
MaxTransactions == 2
\* The version of the view's code, view.version(); an older one was persisted
\* by an earlier run when it is below.
ViewVersion == 1

Callers == 1..NumCallers
JobKeys == {"IntegrityScan", "Mapper"}

Documents == 1..last_transaction_id

JobOk(id) == [ok |-> TRUE, id |-> id]
JobErr == [ok |-> FALSE, id |-> 0]

\* jobs.lookup_or_enqueue(job): callers with the same key share one execution.
LookupOrEnqueue(key) ==
    [jobs EXCEPT ![key] = IF @ = "none" THEN "queued" ELSE @]
\* The job's execute returned: its key is free again.
JobCompleted(key) == [jobs EXCEPT ![key] = "none"]
\* The position in which a caller holds an unresolved handle of the job.
Waiting(key) == IF key = "IntegrityScan" THEN "wait_scan" ELSE "wait_mapper"
\* The job's result reaches every handle of the execution: the callers and,
\* for the Mapper, the scanner that wait for it.
ResolveCallers(key, result) ==
    [c \in Callers |->
        IF caller[c].pc = Waiting(key) /\ caller[c].received = None
        THEN [caller[c] EXCEPT !.received = Some(result)]
        ELSE caller[c]]
ResolveScanner(result) ==
    IF scanner.pc = "wait_mapper" /\ scanner.received = None
    THEN [scanner EXCEPT !.received = Some(result)]
    ELSE scanner

\* IntegrityScanner executions started so far.
ScannerExecutions == scanner.executions

\* update_view_if_needed: last_transaction_indexed < &current_transaction_id.
needs_reindex_always(last_transaction_indexed, current_transaction_id) == TRUE
needs_reindex(last_transaction_indexed, current_transaction_id) ==
    IF last_transaction_indexed # None
    THEN Unwrap(last_transaction_indexed) < current_transaction_id
    ELSE TRUE

\* update_view_if_needed: the loop's exit test.
loop_exit_always(wait_for_transaction, id) == TRUE
loop_exit(wait_for_transaction, id) == wait_for_transaction <= id

IdleCaller ==
    [pc |-> "idle", current_transaction_id |-> 0, received |-> None]

\* update_view_if_needed returned the job's error through `??`.
FailedCaller == [IdleCaller EXCEPT !.pc = "failed"]

\* spawn_integrity_check: view_integrity_checked(...).
CallerCheckIntegrity(c) ==
    /\ caller[c].pc = "idle"
    /\ caller' = [caller EXCEPT ![c].pc =
                     IF completed_integrity_checks THEN "read_tx" ELSE "enqueue_scan"]
    /\ UNCHANGED <<notViewVars, last_transaction_id, view_versions, document_map, invalidated_docs,
                   completed_integrity_checks, view_update_last_status, jobs, scanner,
                   mapper>>

\* spawn_integrity_check: lookup_or_enqueue(IntegrityScanner {..}).
CallerEnqueueScan(c) ==
    /\ caller[c].pc = "enqueue_scan"
    /\ jobs' = LookupOrEnqueue("IntegrityScan")
    /\ caller' = [caller EXCEPT ![c].pc = "wait_scan"]
    /\ UNCHANGED <<notViewVars, last_transaction_id, view_versions, document_map, invalidated_docs,
                   completed_integrity_checks, view_update_last_status, scanner, mapper>>

\* update_view_if_needed: job.receive().await?? on the scanner's handle.
CallerReceiveScan(c) ==
    /\ caller[c].pc = "wait_scan"
    /\ caller[c].received # None
    /\ caller' = [caller EXCEPT ![c] =
                     IF Unwrap(caller[c].received).ok
                     THEN [@ EXCEPT !.pc = "read_tx", !.received = None]
                     ELSE FailedCaller]
    /\ UNCHANGED <<notViewVars, last_transaction_id, view_versions, document_map, invalidated_docs,
                   completed_integrity_checks, view_update_last_status, jobs, scanner,
                   mapper>>

\* update_view_if_needed: database.last_transaction_id().
CallerReadTransactionId(c) ==
    /\ caller[c].pc = "read_tx"
    /\ caller' = [caller EXCEPT
                     ![c].pc = IF last_transaction_id = 0 THEN "returned"
                               ELSE "check_status",
                     ![c].current_transaction_id = last_transaction_id]
    /\ UNCHANGED <<notViewVars, last_transaction_id, view_versions, document_map, invalidated_docs,
                   completed_integrity_checks, view_update_last_status, jobs, scanner,
                   mapper>>

\* update_view_if_needed: the read of view_update_last_status.
CallerCheckStatus(c) ==
    /\ caller[c].pc = "check_status"
    /\ caller' = [caller EXCEPT
                     ![c].pc = IF needs_reindex(view_update_last_status,
                                                caller[c].current_transaction_id)
                               THEN "enqueue_mapper" ELSE "returned"]
    /\ UNCHANGED <<notViewVars, last_transaction_id, view_versions, document_map, invalidated_docs,
                   completed_integrity_checks, view_update_last_status, jobs, scanner,
                   mapper>>

\* update_view_if_needed: lookup_or_enqueue(Mapper {..}) in the loop.
CallerEnqueueMapper(c) ==
    /\ caller[c].pc = "enqueue_mapper"
    /\ jobs' = LookupOrEnqueue("Mapper")
    /\ caller' = [caller EXCEPT ![c].pc = "wait_mapper"]
    /\ UNCHANGED <<notViewVars, last_transaction_id, view_versions, document_map, invalidated_docs,
                   completed_integrity_checks, view_update_last_status, scanner, mapper>>

\* update_view_if_needed: let id = job.receive().await??; and the exit test.
CallerReceiveMapper(c) ==
    /\ caller[c].pc = "wait_mapper"
    /\ caller[c].received # None
    /\ LET result == Unwrap(caller[c].received) IN
       caller' = [caller EXCEPT
                     ![c] = IF ~result.ok THEN FailedCaller
                            ELSE [@ EXCEPT
                                    !.pc = IF loop_exit(
                                                caller[c].current_transaction_id,
                                                result.id)
                                           THEN "returned" ELSE "enqueue_mapper",
                                    !.received = None]]
    /\ UNCHANGED <<notViewVars, last_transaction_id, view_versions, document_map, invalidated_docs,
                   completed_integrity_checks, view_update_last_status, jobs, scanner,
                   mapper>>

\* A worker takes the queued IntegrityScanner.
ScannerStart ==
    /\ jobs["IntegrityScan"] = "queued"
    /\ jobs' = [jobs EXCEPT !["IntegrityScan"] = "running"]
    /\ scanner' = [pc |-> "scan", needs_update |-> FALSE, received |-> None,
                   executions |-> scanner.executions + 1]
    /\ UNCHANGED <<notViewVars, last_transaction_id, view_versions, document_map, invalidated_docs,
                   completed_integrity_checks, view_update_last_status, mapper, caller>>

\* IntegrityScanner::execute, the blocking scan: the documents missing from the
\* view.
missing_entries_unversioned == Documents \ DOMAIN document_map
missing_entries ==
    IF view_versions = Some(ViewVersion)
    THEN Documents \ DOMAIN document_map
    ELSE Documents

\* IntegrityScanner::execute: the blocking closure.
ScannerScan ==
    /\ scanner.pc = "scan"
    /\ IF missing_entries # {}
       THEN /\ view_versions' = Some(ViewVersion)
            /\ invalidated_docs' = invalidated_docs \cup missing_entries
            /\ scanner' = [scanner EXCEPT !.pc = "enqueue_mapper", !.needs_update = TRUE]
       ELSE /\ scanner' = [scanner EXCEPT !.pc = "mark"]
            /\ UNCHANGED <<view_versions, invalidated_docs>>
    /\ UNCHANGED <<notViewVars, last_transaction_id, document_map, completed_integrity_checks,
                   view_update_last_status, jobs, mapper, caller>>

\* IntegrityScanner::execute: the blocking closure fails (`.await??`).
ScannerScanFails ==
    /\ scanner.pc = "scan"
    /\ scanner' = [scanner EXCEPT !.pc = "off", !.needs_update = FALSE]
    /\ jobs' = JobCompleted("IntegrityScan")
    /\ caller' = ResolveCallers("IntegrityScan", JobErr)
    /\ UNCHANGED <<notViewVars, last_transaction_id, view_versions, document_map, invalidated_docs,
                   completed_integrity_checks, view_update_last_status, mapper>>

\* IntegrityScanner::execute: lookup_or_enqueue(Mapper {..}) when needs_update.
ScannerEnqueueMapper ==
    /\ scanner.pc = "enqueue_mapper"
    /\ jobs' = LookupOrEnqueue("Mapper")
    /\ scanner' = [scanner EXCEPT !.pc = "wait_mapper"]
    /\ UNCHANGED <<notViewVars, last_transaction_id, view_versions, document_map, invalidated_docs,
                   completed_integrity_checks, view_update_last_status, mapper, caller>>

ScannerReceiveMapperUnchecked ==
    /\ scanner.pc = "wait_mapper"
    /\ scanner.received # None
    /\ scanner' = [scanner EXCEPT !.pc = "mark", !.received = None]
    /\ UNCHANGED <<notViewVars, last_transaction_id, view_versions, document_map,
                   invalidated_docs, completed_integrity_checks,
                   view_update_last_status, jobs, mapper, caller>>

\* IntegrityScanner::execute: job.receive().await??.
ScannerReceiveMapper ==
    /\ scanner.pc = "wait_mapper"
    /\ scanner.received # None
    /\ IF Unwrap(scanner.received).ok
       THEN /\ scanner' = [scanner EXCEPT !.pc = "mark", !.received = None]
            /\ UNCHANGED <<jobs, caller>>
       ELSE /\ scanner' = [scanner EXCEPT !.pc = "off", !.needs_update = FALSE, !.received = None]
            /\ jobs' = JobCompleted("IntegrityScan")
            /\ caller' = ResolveCallers("IntegrityScan", JobErr)
    /\ UNCHANGED <<notViewVars, last_transaction_id, view_versions, document_map, invalidated_docs,
                   completed_integrity_checks, view_update_last_status, mapper>>

\* mark_integrity_check_complete.
ScannerMark ==
    /\ scanner.pc = "mark"
    /\ completed_integrity_checks' = TRUE
    /\ scanner' = [scanner EXCEPT !.pc = "finish"]
    /\ UNCHANGED <<notViewVars, last_transaction_id, view_versions, document_map, invalidated_docs,
                   view_update_last_status, jobs, mapper, caller>>

\* IntegrityScanner::execute returns Ok(()).
ScannerFinish ==
    /\ scanner.pc = "finish"
    /\ scanner' = [scanner EXCEPT !.pc = "off", !.needs_update = FALSE]
    /\ jobs' = JobCompleted("IntegrityScan")
    /\ caller' = ResolveCallers("IntegrityScan", JobOk(0))
    /\ UNCHANGED <<notViewVars, last_transaction_id, view_versions, document_map, invalidated_docs,
                   completed_integrity_checks, view_update_last_status, mapper>>

\* A worker takes the queued Mapper, which reads the last transaction id.
MapperStart ==
    /\ jobs["Mapper"] = "queued"
    /\ jobs' = [jobs EXCEPT !["Mapper"] = "running"]
    /\ mapper' = [pc |-> "map", transaction_id |-> last_transaction_id]
    /\ UNCHANGED <<notViewVars, last_transaction_id, view_versions, document_map, invalidated_docs,
                   completed_integrity_checks, view_update_last_status, scanner, caller>>

\* The Mapper drains the invalidated set into the document map.
MapperMap ==
    /\ mapper.pc = "map"
    /\ document_map' = [d \in DOMAIN document_map \cup invalidated_docs |->
                            IF d \in invalidated_docs THEN ViewVersion
                            ELSE document_map[d]]
    /\ invalidated_docs' = {}
    /\ mapper' = [mapper EXCEPT !.pc = "publish"]
    /\ UNCHANGED <<notViewVars, last_transaction_id, view_versions, completed_integrity_checks,
                   view_update_last_status, jobs, scanner, caller>>

\* The Mapper fails; its handles receive the error.
MapperFails ==
    /\ mapper.pc = "map"
    /\ mapper' = [pc |-> "off", transaction_id |-> 0]
    /\ jobs' = JobCompleted("Mapper")
    /\ caller' = ResolveCallers("Mapper", JobErr)
    /\ scanner' = ResolveScanner(JobErr)
    /\ UNCHANGED <<notViewVars, last_transaction_id, view_versions, document_map, invalidated_docs,
                   completed_integrity_checks, view_update_last_status>>

\* mark_view_updated(.., transaction_id), then the Mapper returns the id.
MapperFinish ==
    /\ mapper.pc = "publish"
    /\ view_update_last_status' = Some(mapper.transaction_id)
    /\ mapper' = [pc |-> "off", transaction_id |-> 0]
    /\ jobs' = JobCompleted("Mapper")
    /\ caller' = ResolveCallers("Mapper", JobOk(mapper.transaction_id))
    /\ scanner' = ResolveScanner(JobOk(mapper.transaction_id))
    /\ UNCHANGED <<notViewVars, last_transaction_id, view_versions, document_map, invalidated_docs,
                   completed_integrity_checks>>

\* A transaction commits: a new document, invalidated for the view.
Commit ==
    /\ last_transaction_id < MaxTransactions
    /\ last_transaction_id' = last_transaction_id + 1
    /\ invalidated_docs' = invalidated_docs \cup {last_transaction_id + 1}
    /\ UNCHANGED <<notViewVars, view_versions, document_map, completed_integrity_checks,
                   view_update_last_status, jobs, scanner, mapper, caller>>

\* The storage opens on what earlier runs persisted: nothing; one document not
\* yet mapped; one document mapped by this version of the view; one document
\* mapped by an older version.  The in-memory statuses and jobs are empty.
FreshView == [tx |-> 0, version |-> None, map |-> <<>>, invalidated |-> {}]
PersistedViews ==
    { FreshView,
      [tx |-> 1, version |-> None, map |-> <<>>, invalidated |-> {1}],
      [tx |-> 1, version |-> Some(ViewVersion), map |-> <<ViewVersion>>,
       invalidated |-> {}],
      [tx |-> 1, version |-> Some(ViewVersion - 1), map |-> <<ViewVersion - 1>>,
       invalidated |-> {}] }

InitViewFrom(persisted) ==
    /\ last_transaction_id = persisted.tx
    /\ view_versions = persisted.version
    /\ document_map = persisted.map
    /\ invalidated_docs = persisted.invalidated
    /\ completed_integrity_checks = FALSE
    /\ view_update_last_status = None
    /\ jobs = [key \in JobKeys |-> "none"]
    /\ scanner = [pc |-> "off", needs_update |-> FALSE, received |-> None,
                  executions |-> 0]
    /\ mapper = [pc |-> "off", transaction_id |-> 0]
    /\ caller = [c \in Callers |-> IdleCaller]

InitView == \E persisted \in PersistedViews : InitViewFrom(persisted)
QuietView == InitViewFrom(FreshView)

NextView ==
    \/ \E c \in Callers :
          \/ CallerCheckIntegrity(c)
          \/ CallerEnqueueScan(c)
          \/ CallerReceiveScan(c)
          \/ CallerReadTransactionId(c)
          \/ CallerCheckStatus(c)
          \/ CallerEnqueueMapper(c)
          \/ CallerReceiveMapper(c)
    \/ ScannerStart \/ ScannerScan \/ ScannerScanFails \/ ScannerEnqueueMapper
    \/ ScannerReceiveMapper \/ ScannerMark \/ ScannerFinish
    \/ MapperStart \/ MapperMap \/ MapperFails \/ MapperFinish
    \/ Commit

(***************************************************************************)
(* Key expiration: keyvalue.rs, expiration_task and its tests.             *)
(***************************************************************************)

\* The clock runs from 0 to MaxTime; every deadline lies in 1..MaxTime.
MaxTime == 2
\* Number of set operations, each sending one expiration update.
MaxUpdates == 2

\* The full keys of the tests.
ExpKeys == {"atree.akey", "atree.bkey"}
Timestamps == 1..MaxTime

ExpirationUpdate(tree_key, expiration) ==
    [tree_key |-> tree_key, expiration |-> expiration]

\* VecDeque::remove(index) and VecDeque::insert(index, x), indices from 1.
RemoveAt(order, index) ==
    SubSeq(order, 1, index - 1) \o SubSeq(order, index + 1, Len(order))
InsertAt(order, index, key) ==
    SubSeq(order, 1, index - 1) \o <<key>> \o SubSeq(order, index, Len(order))

\* The find_map over expiration_order: the first index holding the key.
existing_entry_index(order, key) ==
    CHOOSE index \in 1..Len(order) :
        /\ order[index] = key
        /\ \A earlier \in 1..(index - 1) : order[earlier] # key

\* Lines 497-513: the slot a tracked key holds is given up before the key is
\* queued again.
KeepExisting(order, key) == order
ReplaceExisting(order, key) == RemoveAt(order, existing_entry_index(order, key))

\* Lines 516-522: the scan for the slot of a deadline: the first index whose key
\* expires later, 0 when there is none and the key goes to the back.
insert_at_front(order, tracked, expiration) == IF order = <<>> THEN 0 ELSE 1
insert_at_before_ties(order, tracked, expiration) ==
    LET later == { index \in 1..Len(order) : tracked[order[index]] >= expiration }
    IN IF later = {} THEN 0
       ELSE CHOOSE index \in later : \A other \in later : index <= other
insert_at(order, tracked, expiration) ==
    LET later == { index \in 1..Len(order) : tracked[order[index]] > expiration }
    IN IF later = {} THEN 0
       ELSE CHOOSE index \in later : \A other \in later : index <= other

\* Lines 496-528: an update that carries a deadline.
SetExpiration(order, tracked, key, expiration) ==
    LET others == IF key \in DOMAIN tracked
                  THEN ReplaceExisting(order, key)
                  ELSE order
        at == insert_at(others, tracked, expiration)
    IN [order |-> IF at = 0 THEN Append(others, key)
                  ELSE InsertAt(others, at, key),
        tracked |-> [k \in DOMAIN tracked \cup {key} |->
                        IF k = key THEN expiration ELSE tracked[k]]]

\* Lines 529-542: an update that carries no deadline.
IgnoreClear(order, tracked, key) == [order |-> order, tracked |-> tracked]
ClearExpiration(order, tracked, key) ==
    IF key \in DOMAIN tracked
    THEN [order |-> RemoveAt(order, existing_entry_index(order, key)),
          tracked |-> [k \in DOMAIN tracked \ {key} |-> tracked[k]]]
    ELSE [order |-> order, tracked |-> tracked]

\* The unwrap calls of lines 453, 476, 509, 518 and 540 panic when a key of the
\* order is not tracked or a tracked key is not in the order.
Range(order) == { order[index] : index \in 1..Len(order) }
UnwrapPanics(order, tracked) == Range(order) # DOMAIN tracked

ProcessUpdate(update) ==
    IF update.expiration # None
    THEN SetExpiration(expiration_order, tracked_keys, update.tree_key,
                       Unwrap(update.expiration))
    ELSE ClearExpiration(expiration_order, tracked_keys, update.tree_key)

\* `*timeout - now`: the time left, None once the deadline is behind the clock.
remaining_time(timeout, at) ==
    IF timeout >= at THEN Some(timeout - at) ELSE None

\* Lines 475-481: how many front entries the while loop pops.
ready_none(order, tracked, at) == 0
ready_count(order, tracked, at) ==
    LET live == { index \in 1..Len(order) : ~(tracked[order[index]] <= at) }
    IN IF live = {} THEN Len(order)
       ELSE (CHOOSE index \in live : \A other \in live : index <= other) - 1

\* `update` is the update the loop body holds, with its position in the
\* channel's history.
IdleExpTask == [pc |-> "top", now |-> 0, keys_to_remove |-> {}, update |-> None]

\* What the model remembers of a key: the expiration of the last update the
\* task integrated, the position of that update in the channel's history, the
\* deadline it replaced (0 for none), whether the task has removed the key from
\* the tree since, and whether that removal found an entry.
NoHistory ==
    [expiration |-> None, serial |-> 0, replaced |-> 0, removed |-> FALSE,
     found |-> FALSE]

Integrated(update, serial) ==
    [exp_hist EXCEPT ![update.tree_key] =
        [expiration |-> update.expiration,
         serial |-> serial,
         replaced |-> IF update.tree_key \in DOMAIN tracked_keys
                      THEN tracked_keys[update.tree_key] ELSE 0,
         removed |-> FALSE,
         found |-> FALSE]]

\* recv_async, timeout(recv_async) or try_recv returns the update at the head
\* of the channel.
Receive ==
    /\ updates' = Tail(updates)
    /\ expTask' = [expTask EXCEPT !.pc = "process",
                      !.update = Some([update |-> Head(updates),
                                       serial |-> sent - Len(updates) + 1])]
    /\ UNCHANGED <<now, key_tree, sent, senders, tracked_keys, expiration_order,
                   exp_hist>>

\* Lines 496-543 for the update the loop body holds; at the end of the body, or
\* when an unwrap panics, the update is dropped.
ExpProcess ==
    LET held == Unwrap(expTask.update) IN
    /\ expTask.pc = "process"
    /\ IF UnwrapPanics(expiration_order, tracked_keys)
       THEN /\ expTask' = [expTask EXCEPT !.pc = "panicked", !.update = None]
            /\ UNCHANGED <<tracked_keys, expiration_order, exp_hist>>
       ELSE /\ expiration_order' = ProcessUpdate(held.update).order
            /\ tracked_keys' = ProcessUpdate(held.update).tracked
            /\ exp_hist' = Integrated(held.update, held.serial)
            /\ expTask' = [expTask EXCEPT !.pc = "top", !.update = None]
    /\ UNCHANGED <<now, key_tree, updates, sent, senders>>
    /\ UNCHANGED notExpVars

\* The completion signal of the update at position `serial`, handed in as
\* sent when the task receives the update.
completion_sent_on_receive(serial) == serial \in 1..(sent - Len(updates))
\* impl Drop for ExpirationUpdate: the completion signal of the update at
\* position `serial` of the channel's history has been sent once the update
\* has left the channel and the loop body no longer holds it.
completion_sent(serial) ==
    /\ serial \in 1..(sent - Len(updates))
    /\ \A held \in expTask.update : held.serial # serial

\* Lines 474-481 and 492: the expired front entries leave the task's state.
Collect ==
    LET n == ready_count(expiration_order, tracked_keys, expTask.now) IN
    /\ expiration_order' = SubSeq(expiration_order, n + 1, Len(expiration_order))
    /\ tracked_keys' = [k \in DOMAIN tracked_keys
                            \ Range(SubSeq(expiration_order, 1, n)) |->
                        tracked_keys[k]]
    /\ expTask' = [expTask EXCEPT !.pc = "remove",
                       !.keys_to_remove = Range(SubSeq(expiration_order, 1, n))]
    /\ UNCHANGED <<now, key_tree, updates, sent, senders, exp_hist>>

\* Lines 446-465: the top of the loop decides how to wait.
ExpTop ==
    /\ expTask.pc = "top"
    /\ expTask' =
        IF expiration_order = <<>>
        THEN [expTask EXCEPT !.pc = "recv"]
        ELSE IF UnwrapPanics(expiration_order, tracked_keys)
        THEN [expTask EXCEPT !.pc = "panicked"]
        ELSE IF remaining_time(tracked_keys[expiration_order[1]], now) # None
        THEN [expTask EXCEPT !.pc = "timeout_recv", !.now = now]
        ELSE [expTask EXCEPT !.pc = "try_recv", !.now = now]
    /\ UNCHANGED <<now, key_tree, updates, sent, senders, tracked_keys,
                   expiration_order,
                   exp_hist>>
    /\ UNCHANGED notExpVars

\* Line 447: nothing is tracked, the task blocks until an update arrives.
ExpRecv ==
    /\ expTask.pc = "recv"
    /\ updates # <<>>
    /\ Receive
    /\ UNCHANGED notExpVars

\* Lines 458-459: an update arrives while the task waits for the front deadline.
ExpTimeoutRecv ==
    /\ expTask.pc = "timeout_recv"
    /\ updates # <<>>
    /\ Receive
    /\ UNCHANGED notExpVars

\* Line 461: the wait for the front deadline times out.
ExpElapsed ==
    /\ expTask.pc = "timeout_recv"
    /\ now >= tracked_keys[expiration_order[1]]
    /\ Collect
    /\ UNCHANGED notExpVars

\* Line 464: the front deadline is behind the clock, the channel is polled once.
ExpTryRecv ==
    /\ expTask.pc = "try_recv"
    /\ IF updates # <<>> THEN Receive ELSE Collect
    /\ UNCHANGED notExpVars

\* Lines 482-491: the blocking batch removes the collected keys from the tree.
ExpRemove ==
    /\ expTask.pc = "remove"
    /\ key_tree' = key_tree \ expTask.keys_to_remove
    /\ exp_hist' = [k \in ExpKeys |->
                      IF k \in expTask.keys_to_remove
                      THEN [exp_hist[k] EXCEPT !.removed = TRUE,
                                               !.found = k \in key_tree]
                      ELSE exp_hist[k]]
    /\ expTask' = [expTask EXCEPT !.pc = "top", !.keys_to_remove = {}]
    /\ UNCHANGED <<now, updates, sent, senders, tracked_keys, expiration_order>>
    /\ UNCHANGED notExpVars

\* execute_set_operation, lines 152-181, of a single caller: the entry is
\* written to the tree and its expiration is sent to the task.
SetKey(key, expiration) ==
    /\ senders > 0
    /\ sent < MaxUpdates
    /\ sent' = sent + 1
    /\ key_tree' = key_tree \cup {key}
    /\ updates' = Append(updates, ExpirationUpdate(key, expiration))
    /\ UNCHANGED <<now, senders, tracked_keys, expiration_order, expTask,
                   exp_hist>>
    /\ UNCHANGED notExpVars

\* Timestamp::now() advances.
Tick ==
    /\ now < MaxTime
    /\ now' = now + 1
    /\ UNCHANGED <<key_tree, updates, sent, senders, tracked_keys,
                   expiration_order,
                   expTask, exp_hist>>
    /\ UNCHANGED notExpVars

\* The last sender of the channel is dropped.
DropSenders ==
    /\ senders > 0
    /\ senders' = senders - 1
    /\ UNCHANGED <<now, key_tree, updates, sent, tracked_keys, expiration_order,
                   expTask, exp_hist>>
    /\ UNCHANGED notExpVars

\* Where the loop goes when its receive reports the channel disconnected.
continue_on_disconnect(pc) == "top"
\* Lines 449 and 460: both blocking receives break out of the loop.
break_on_disconnect(pc) ==
    IF pc \in {"recv", "timeout_recv"} THEN "done" ELSE pc

\* Lines 447-449 and 458-460: recv_async reports Disconnected once the channel
\* is empty and has no sender; the loop ends and the task returns Ok(()).
ExpDisconnected ==
    /\ expTask.pc \in {"recv", "timeout_recv"}
    /\ updates = <<>>
    /\ senders = 0
    /\ expTask' = [expTask EXCEPT !.pc = break_on_disconnect(expTask.pc)]
    /\ UNCHANGED <<now, key_tree, updates, sent, senders, tracked_keys,
                   expiration_order, exp_hist>>
    /\ UNCHANGED notExpVars

InitExp ==
    /\ now = 0
    /\ key_tree = {}
    /\ updates = <<>>
    /\ sent = 0
    /\ senders = 1
    /\ tracked_keys = [k \in {} |-> 0]
    /\ expiration_order = <<>>
    /\ expTask = IdleExpTask
    /\ exp_hist = [k \in ExpKeys |-> NoHistory]
QuietExp == InitExp

ExpTaskNext ==
    \/ ExpTop \/ ExpRecv \/ ExpTimeoutRecv \/ ExpElapsed \/ ExpTryRecv
    \/ ExpProcess \/ ExpRemove

NextExp ==
    \/ ExpTop \/ ExpRecv \/ ExpTimeoutRecv \/ ExpElapsed \/ ExpTryRecv
    \/ ExpProcess \/ ExpRemove
    \/ \E key \in ExpKeys, expiration \in {None} \cup { Some(t) : t \in Timestamps } :
        SetKey(key, expiration)
    \/ Tick

\* The task while the database is closed: the senders may be dropped.
NextExpClose == NextExp \/ DropSenders \/ ExpDisconnected



(***************************************************************************)
(* Database names: storage.rs, validate_name and its test.                 *)
(* A name is the sequence of its characters.                               *)
(***************************************************************************)

\* Longest name handed to validate_name.
MaxNameLen == 3

\* The characters of the names: the kinds name_validation_tests uses, with
\* "U+2661" standing for the one character U+2661.
NameChars == {"a", "Z", "0", "_", ".", "-", "U+2661"}
\* char::is_ascii_alphanumeric.
is_ascii_alphanumeric(c) == c \in {"a", "b", "d", "i", "m", "n", "D", "Z", "0"}

\* char::to_ascii_lowercase and str::to_ascii_lowercase.
char_to_ascii_lowercase(c) == IF c = "D" THEN "d" ELSE IF c = "Z" THEN "z" ELSE c
to_ascii_lowercase(name) ==
    [index \in 1..Len(name) |-> char_to_ascii_lowercase(name[index])]

\* What a character at an index may be, handed in for the closure: the index
\* is not looked at.
allowed_anywhere(index, c) ==
    is_ascii_alphanumeric(c) \/ c = "_" \/ c = "." \/ c = "-"
\* validate_name: the closure given to all().
allowed(index, c) ==
    \/ is_ascii_alphanumeric(c)
    \/ (index = 0 /\ c = "_")
    \/ (index > 0 /\ (c = "." \/ c = "-"))

\* name.chars().enumerate().all(..), from the character at index on.
RECURSIVE all_from(_, _)
all_from(name, index) ==
    IF index = Len(name)
    THEN TRUE
    ELSE IF allowed(index, name[index + 1])
         THEN all_from(name, index + 1)
         ELSE FALSE

\* Storage::validate_name.
validate_name(name) ==
    IF all_from(name, 0) THEN "Ok" ELSE "InvalidDatabaseName"

RECURSIVE NamesOfLen(_)
NamesOfLen(n) ==
    IF n = 0
    THEN {<<>>}
    ELSE { Append(name, c) : name \in NamesOfLen(n - 1), c \in NameChars }
Names == UNION { NamesOfLen(n) : n \in 0..MaxNameLen }

\* A call of Storage::validate_name.
ValidateName ==
    /\ name_result = "none"
    /\ name_result' = validate_name(name_input)
    /\ UNCHANGED <<name_input, notNameVars>>

InitName ==
    /\ name_input \in Names
    /\ name_result = "none"
QuietName ==
    /\ name_input = <<>>
    /\ name_result = "none"

NextName == ValidateName

(***************************************************************************)
(* Storage sessions: storage.rs.                                           *)
(* The Storage values of one process, the sessions they authenticate, the  *)
(* subscribers recorded under the sessions, and the permission-gated calls *)
(* of StorageConnection made through a Storage value.                      *)
(***************************************************************************)

\* Cap on last_session_id.
MaxSessions == 2
\* Cap on SessionSubscribers::last_id.
MaxSubscribers == 2

\* The two places of the process that can hold a Storage value.
Handles == {"opened", "derived"}
\* admin::ADMIN_DATABASE_NAME.
ADMIN_DATABASE_NAME == <<"_", "a", "d", "m", "i", "n">>
DatabaseNames == {<<"d", "b">>}
\* The schema types of the process and Schema::schema_name of each.
SchemaTypes == {"Admin", "Basic", "BasicV2"}
schema_name(DB) == IF DB = "Admin" THEN "admin" ELSE "basic"
ServerActions == {"CreateDatabase", "DeleteDatabase", "AssumeIdentity"}
\* The users stored in the admin database and their effective permissions.
Users == {"admin", "guest"}
UserIds == Users \cup {"nobody"}
effective_permissions(user) == IF user = "admin" THEN ServerActions ELSE {}
\* Permissions::allow_all(), the permissions of Session::default().
AllowAll == ServerActions
\* The permissions callers restrict a Storage value by.
RestrictingPermissions == {{}, {"CreateDatabase"}}

\* A slot of the process that holds no Storage value.
NoStorage == [live |-> FALSE, authentication |-> None, permissions |-> {}]
\* impl From<StorageInstance> for Storage.
StorageFrom ==
    [live |-> TRUE, authentication |-> None, permissions |-> AllowAll]
\* The value assume_user returns.
AuthenticatedStorage(session_id, permissions) ==
    [live |-> TRUE, authentication |-> Some(session_id),
     permissions |-> permissions]

\* Session::check_permission: the session's permissions allow the action.
SessionAllows(permissions, action) ==
    IF action \in permissions THEN "Ok" ELSE "PermissionDenied"

\* <Storage as StorageConnection>::session delegates to the instance, whose
\* session() is None.
session(handle) == None

\* Storage::check_permission.
check_permission(handle, action) ==
    IF session(handle) = None
    THEN "Ok"
    ELSE SessionAllows(Unwrap(session(handle)), action)

NoCall == [action |-> "none", permissions |-> {}, result |-> "none"]
Call(handle, action, result) ==
    [action |-> action, permissions |-> handle.permissions, result |-> result]

FreeHandles == { h \in Handles : ~storage_handles[h].live }
LiveHandles == { h \in Handles : storage_handles[h].live }

\* Arc::strong_count of a session's AuthenticatedSession: the Storage values
\* that hold it and the sessions table.
StrongCount(handles, table, id) ==
    Cardinality({ h \in Handles : handles[h].live /\ handles[h].authentication = Some(id) })
        + (IF id \in table THEN 1 ELSE 0)

\* impl Drop for AuthenticatedSession, run when the last Arc goes away.
DropSession(id) ==
    /\ sessions' = sessions \ {id}
    /\ subscribers_by_session' =
        [s \in DOMAIN subscribers_by_session \ {id} |-> subscribers_by_session[s]]
    /\ subscribers' =
        LET removed == IF id \in DOMAIN subscribers_by_session
                       THEN subscribers_by_session[id] ELSE {}
        IN  [s \in DOMAIN subscribers \ removed |-> subscribers[s]]

\* A Storage value goes out of scope.
DropStorage(h) ==
    /\ storage_handles[h].live
    /\ storage_handles' = [storage_handles EXCEPT ![h] = NoStorage]
    /\ LET authentication == storage_handles[h].authentication
       IN  IF authentication # None
              /\ StrongCount(storage_handles', sessions, Unwrap(authentication)) = 0
           THEN DropSession(Unwrap(authentication))
           ELSE UNCHANGED <<sessions, subscribers, subscribers_by_session>>
    /\ storage_call' = NoCall
    /\ UNCHANGED <<available_databases, database_records, last_session_id,
                   last_id, notStorageVars>>

\* Storage::with_effective_permissions.
with_effective_permissions(h, effective) ==
    /\ storage_handles[h].live
    /\ \E new \in FreeHandles :
        storage_handles' = [storage_handles EXCEPT ![new] =
            [storage_handles[h] EXCEPT !.permissions = @ \cap effective]]
    /\ storage_call' = NoCall
    /\ UNCHANGED <<available_databases, database_records, sessions,
                   last_session_id, subscribers,
                   subscribers_by_session, last_id, notStorageVars>>

\* assume_user handed in without the increment of last_session_id.
assume_user_unincremented(user, new) ==
    /\ last_session_id' = last_session_id
    /\ sessions' = sessions \cup {last_session_id'}
    /\ storage_handles' = [storage_handles EXCEPT ![new] =
        AuthenticatedStorage(last_session_id', effective_permissions(user))]

\* StorageInstance::assume_user, returning its Storage in the slot new.
assume_user(user, new) ==
    /\ last_session_id' = last_session_id + 1
    /\ sessions' = sessions \cup {last_session_id'}
    /\ storage_handles' = [storage_handles EXCEPT ![new] =
        AuthenticatedStorage(last_session_id', effective_permissions(user))]

\* <Storage as StorageConnection>::assume_identity.
assume_identity(h, user) ==
    /\ storage_handles[h].live
    /\ last_session_id < MaxSessions
    /\ LET handle == storage_handles[h]
       IN  IF check_permission(handle, "AssumeIdentity") # "Ok"
           THEN /\ storage_call' = Call(handle, "AssumeIdentity", "PermissionDenied")
                /\ UNCHANGED <<sessions, last_session_id, storage_handles>>
           ELSE IF user \notin Users
           THEN /\ storage_call' = Call(handle, "AssumeIdentity", "InvalidCredentials")
                /\ UNCHANGED <<sessions, last_session_id, storage_handles>>
           ELSE /\ \E new \in FreeHandles : assume_user(user, new)
                /\ storage_call' = Call(handle, "AssumeIdentity", "Ok")
    /\ UNCHANGED <<available_databases, database_records, subscribers,
                   subscribers_by_session,
                   last_id, notStorageVars>>

\* The admin database's view database::ByName: the records emitted under a
\* key; a record is emitted under its name in lower case.
by_name(records, key) == { record \in records : to_ascii_lowercase(record) = key }

\* Lines 815-820 and 872-876: the existence test, a query of ByName with the
\* name in lower case.
name_taken(databases, records, name) ==
    by_name(records, to_ascii_lowercase(name)) # {}

\* StorageInstance::create_database_with_schema: its result, and the
\* in-memory databases and the stored records after it.
CreateDatabase(databases, records, registered, name, schema, only_if_needed) ==
    IF validate_name(name) # "Ok"
    THEN [result |-> "InvalidDatabaseName", databases |-> databases,
          records |-> records]
    ELSE IF schema \notin DOMAIN registered
    THEN [result |-> "SchemaNotRegistered", databases |-> databases,
          records |-> records]
    ELSE IF name_taken(databases, records, name)
    THEN [result |-> IF only_if_needed THEN "Ok" ELSE "DatabaseNameAlreadyTaken",
          databases |-> databases, records |-> records]
    ELSE [result |-> "Ok", databases |-> databases \cup {name},
          records |-> records \cup {name}]

\* StorageInstance::delete_database: its result, and the in-memory databases
\* and the stored records after it.  The name as given is removed from the
\* map; the record found under the name in lower case is deleted.
DeleteDatabase(databases, records, name) ==
    [result |-> IF name_taken(databases, records, name)
                THEN "Ok" ELSE "DatabaseNotFound",
     databases |-> databases \ {name},
     records |-> records \ by_name(records, to_ascii_lowercase(name))]

\* Storage::cache_available_databases: the map rebuilt from the keys of
\* ByName when the storage is opened again.
cache_available_databases(records) ==
    { to_ascii_lowercase(record) : record \in records }

\* <Storage as StorageConnection>::create_database_with_schema, with the
\* admin schema and only_if_needed false.
create_database_with_schema(h, name) ==
    /\ storage_handles[h].live
    /\ LET handle == storage_handles[h]
       IN  IF check_permission(handle, "CreateDatabase") # "Ok"
           THEN /\ storage_call' = Call(handle, "CreateDatabase", "PermissionDenied")
                /\ UNCHANGED <<available_databases, database_records>>
           ELSE LET created == CreateDatabase(available_databases,
                                              database_records, schemas, name,
                                              schema_name("Admin"), FALSE)
                IN  /\ available_databases' = created.databases
                    /\ database_records' = created.records
                    /\ storage_call' = Call(handle, "CreateDatabase", created.result)
    /\ UNCHANGED <<sessions, last_session_id, subscribers, subscribers_by_session,
                   last_id, storage_handles, notStorageVars>>

\* <Storage as StorageConnection>::delete_database.
delete_database(h, name) ==
    /\ storage_handles[h].live
    /\ LET handle == storage_handles[h]
       IN  IF check_permission(handle, "DeleteDatabase") # "Ok"
           THEN /\ storage_call' = Call(handle, "DeleteDatabase", "PermissionDenied")
                /\ UNCHANGED <<available_databases, database_records>>
           ELSE LET deleted == DeleteDatabase(available_databases,
                                              database_records, name)
                IN  /\ available_databases' = deleted.databases
                    /\ database_records' = deleted.records
                    /\ storage_call' = Call(handle, "DeleteDatabase", deleted.result)
    /\ UNCHANGED <<sessions, last_session_id, subscribers, subscribers_by_session,
                   last_id, storage_handles, notStorageVars>>

\* A subscriber is created through a Storage value and recorded under the
\* value's session.
create_subscriber(h) ==
    /\ storage_handles[h].live
    /\ last_id < MaxSubscribers
    /\ last_id' = last_id + 1
    /\ LET session_id == storage_handles[h].authentication
       IN  /\ subscribers' =
                [s \in DOMAIN subscribers \cup {last_id'} |->
                    IF s = last_id' THEN session_id ELSE subscribers[s]]
           /\ subscribers_by_session' =
                IF session_id = None
                THEN subscribers_by_session
                ELSE [s \in DOMAIN subscribers_by_session \cup session_id |->
                        IF s \in session_id
                        THEN (IF s \in DOMAIN subscribers_by_session
                              THEN subscribers_by_session[s] ELSE {}) \cup {last_id'}
                        ELSE subscribers_by_session[s]]
    /\ storage_call' = NoCall
    /\ UNCHANGED <<available_databases, database_records, sessions,
                   last_session_id,
                   storage_handles, notStorageVars>>

\* Storage::open followed by Storage::from: no database but admin, no session
\* and no subscriber.
InitStorage ==
    /\ available_databases = {ADMIN_DATABASE_NAME}
    /\ database_records = {ADMIN_DATABASE_NAME}
    /\ sessions = {}
    /\ last_session_id = 0
    /\ subscribers = [s \in {} |-> None]
    /\ subscribers_by_session = [s \in {} |-> {}]
    /\ last_id = 0
    /\ storage_handles = [h \in Handles |-> IF h = "opened" THEN StorageFrom ELSE NoStorage]
    /\ storage_call = NoCall
QuietStorage == InitStorage

NextStorage ==
    \/ \E h \in Handles : DropStorage(h)
    \/ \E h \in Handles, effective \in RestrictingPermissions :
        with_effective_permissions(h, effective)
    \/ \E h \in Handles, user \in UserIds : assume_identity(h, user)
    \/ \E h \in Handles, name \in DatabaseNames :
        create_database_with_schema(h, name)
    \/ \E h \in Handles, name \in DatabaseNames : delete_database(h, name)
    \/ \E h \in Handles : create_subscriber(h)

(***************************************************************************)
(* Client worker: client.rs, client/quic_worker.rs.                        *)
(* One Client, its reconnecting worker, the reader task of the current     *)
(* connection, and a server that answers each request it has received.     *)
(***************************************************************************)

\* Number of requests the client sends.
MaxRequests == 3
\* Width of the request id; stands for the 32 bits of AtomicU32.
RequestIdBits == 1

\* The requests, numbered in the order of their fetch_add.
Requests == 0..(MaxRequests - 1)
RequestIds == 0..(2^RequestIdBits - 1)
\* The id fetch_add hands to the request: the counter wraps.
IdOf(request) == request % (2^RequestIdBits)

\* The response envelope the server writes for a request.
Payload(request) == [id |-> IdOf(request), wrapped |-> request]
\* What a responder is sent: Ok(response) or Err(error).
Ok(payload) == [error |-> "none", payload |-> Some(payload)]
Err(error) == [error |-> error, payload |-> None]

IdleWorker == [pc |-> "recv", initial_request |-> None]

\* Client::send_request up to its wait on result_receiver.  The function keeps
\* result_sender while it waits, so the wait ends only with a result sent to
\* a responder.
send_request ==
    /\ request_id < MaxRequests
    /\ request_id' = request_id + 1
    /\ request_queue' = Append(request_queue, request_id)
    /\ UNCHANGED <<results, written, worker, connection, outstanding_requests,
                   reader, at_server, payloads, notClientVars>>

\* responder.send(result) on the bounded(1) channel of a request.
Respond(request, result) == [results EXCEPT ![request] = Append(@, result)]

\* payload_sender.send(&request) on an open connection.
Send(request) ==
    /\ at_server' = at_server \cup {request}
    /\ written' = [written EXCEPT ![request] = @ + 1]

\* The key a request is inserted into the map under, handed in for every key.
insert_key_fixed(request) == 0
\* outstanding_requests.insert(request.id, request): the key.
insert_key(request) == IdOf(request)
\* outstanding_requests.insert(request.id, request).
Insert(map, request) ==
    [id \in DOMAIN map \cup {insert_key(request)} |->
        IF id = insert_key(request) THEN request ELSE map[id]]
\* outstanding_requests.remove(&id).
Remove(map, id) == [other \in DOMAIN map \ {id} |-> map[other]]
EmptyMap == [id \in {} |-> 0]
\* The requests whose responders the map holds.
Outstanding(map) == { map[id] : id \in DOMAIN map }

\* The connection of connect_and_process goes out of scope: the transport is
\* closed, and what was on it is lost.
CloseConnection ==
    /\ connection' = "none"
    /\ at_server' = {}
    /\ payloads' = {}

\* reconnecting_client_loop: request_receiver.recv_async() yields a request.
WorkerRecv ==
    /\ worker.pc = "recv"
    /\ request_queue # <<>>
    /\ worker' = [pc |-> "connect", initial_request |-> Some(Head(request_queue))]
    /\ request_queue' = Tail(request_queue)
    /\ UNCHANGED <<request_id, results, written, connection, outstanding_requests,
                   reader, at_server, payloads, notClientVars>>

\* connect_and_process: connect succeeds, a fresh map is made and the reader
\* is spawned.
ConnectOk ==
    /\ worker.pc = "connect"
    /\ worker' = [worker EXCEPT !.pc = "send_initial"]
    /\ connection' = "open"
    /\ outstanding_requests' = EmptyMap
    /\ reader' = "running"
    /\ UNCHANGED <<request_id, request_queue, results, written, at_server,
                   payloads, notClientVars>>

\* The loop leaving the request handed back after a failed connect unanswered.
failed_connect_dropped(request) ==
    /\ UNCHANGED results
    /\ worker' = IdleWorker
\* reconnecting_client_loop: the error is sent to the failed request's
\* responder and the loop continues with recv_async.
failed_connect(request) ==
    /\ results' = Respond(request, Err("connect"))
    /\ worker' = IdleWorker

\* connect_and_process: connect fails; the loop replays the error to the
\* request.
ConnectFails ==
    /\ worker.pc = "connect"
    /\ failed_connect(Unwrap(worker.initial_request))
    /\ UNCHANGED <<request_id, request_queue, written, connection,
                   outstanding_requests, reader, at_server, payloads,
                   notClientVars>>

\* connect_and_process: payload_sender.send(&initial_request.request).
SendInitial ==
    /\ worker.pc = "send_initial"
    /\ IF connection = "open"
       THEN /\ Send(Unwrap(worker.initial_request))
            /\ worker' = [worker EXCEPT !.pc = "insert_initial"]
            /\ UNCHANGED <<results, connection, outstanding_requests, reader,
                           payloads>>
       ELSE /\ results' = Respond(Unwrap(worker.initial_request), Err("send"))
            /\ worker' = IdleWorker
            /\ CloseConnection
            /\ outstanding_requests' = EmptyMap
            /\ reader' = "off"
            /\ UNCHANGED written
    /\ UNCHANGED <<request_id, request_queue, notClientVars>>

\* connect_and_process: the initial request is inserted into the map.
InsertInitial ==
    /\ worker.pc = "insert_initial"
    /\ outstanding_requests' =
        Insert(outstanding_requests, Unwrap(worker.initial_request))
    /\ worker' = [pc |-> "process", initial_request |-> None]
    /\ UNCHANGED <<request_id, request_queue, results, written, connection,
                   reader, at_server, payloads, notClientVars>>

\* process_requests: one turn of the loop, under the map's lock.  A failed
\* send ends connect_and_process with (None, err): the request, the map and
\* the connection are dropped.
process_requests ==
    /\ worker.pc = "process"
    /\ request_queue # <<>>
    /\ request_queue' = Tail(request_queue)
    /\ IF connection = "open"
       THEN /\ Send(Head(request_queue))
            /\ outstanding_requests' =
                Insert(outstanding_requests, Head(request_queue))
            /\ UNCHANGED <<worker, connection, reader, payloads>>
       ELSE /\ worker' = IdleWorker
            /\ CloseConnection
            /\ outstanding_requests' = EmptyMap
            /\ reader' = "off"
            /\ UNCHANGED written
    /\ UNCHANGED <<request_id, results, notClientVars>>

\* process with process_response_payload: a payload carrying a request id
\* arrives; the responder is taken out of the map and sent the response.  A
\* missing responder panics the task.
process(payload) ==
    /\ reader = "running"
    /\ payload \in payloads
    /\ payloads' = payloads \ {payload}
    /\ IF payload.id \in DOMAIN outstanding_requests
       THEN /\ outstanding_requests' = Remove(outstanding_requests, payload.id)
            /\ results' = Respond(outstanding_requests[payload.id], Ok(payload))
            /\ UNCHANGED reader
       ELSE /\ reader' = "panicked"
            /\ UNCHANGED <<outstanding_requests, results>>
    /\ UNCHANGED <<request_id, request_queue, written, worker, connection,
                   at_server, notClientVars>>

\* process: the stream ends or yields an error; the task returns Err.
ReaderFails ==
    /\ reader = "running"
    /\ connection = "broken"
    /\ reader' = "failed"
    /\ UNCHANGED <<request_id, request_queue, results, written, worker,
                   connection, outstanding_requests, at_server, payloads,
                   notClientVars>>

\* connect_and_process: try_join sees the reader end with an error (a panic
\* maps to Disconnected) and returns (None, err); the loop prints it and
\* continues.  The map and the connection are dropped.
ReaderJoined ==
    /\ worker.pc = "process"
    /\ reader \in {"failed", "panicked"}
    /\ worker' = IdleWorker
    /\ CloseConnection
    /\ outstanding_requests' = EmptyMap
    /\ reader' = "off"
    /\ UNCHANGED <<request_id, request_queue, results, written, notClientVars>>

\* The server answers a request.
ServerResponds(request) ==
    /\ connection = "open"
    /\ request \in at_server
    /\ at_server' = at_server \ {request}
    /\ payloads' = payloads \cup {Payload(request)}
    /\ UNCHANGED <<request_id, request_queue, results, written, worker,
                   connection, outstanding_requests, reader, notClientVars>>

\* The transport fails.
Disconnect ==
    /\ connection = "open"
    /\ connection' = "broken"
    /\ at_server' = {}
    /\ payloads' = {}
    /\ UNCHANGED <<request_id, request_queue, results, written, worker,
                   outstanding_requests, reader, notClientVars>>

InitClient ==
    /\ request_id = 0
    /\ request_queue = <<>>
    /\ results = [request \in Requests |-> <<>>]
    /\ written = [request \in Requests |-> 0]
    /\ worker = IdleWorker
    /\ connection = "none"
    /\ outstanding_requests = EmptyMap
    /\ reader = "off"
    /\ at_server = {}
    /\ payloads = {}
QuietClient == InitClient

NextClient ==
    \/ send_request
    \/ WorkerRecv \/ ConnectOk \/ ConnectFails \/ SendInitial \/ InsertInitial
    \/ process_requests
    \/ \E request \in Requests : process(Payload(request))
    \/ ReaderFails \/ ReaderJoined
    \/ \E request \in Requests : ServerResponds(request)
    \/ Disconnect

(***************************************************************************)
(* Pub/sub relay: pubsub.rs and its test suite.                            *)
(* One relay, one publisher, and the subscribers' calls the tests make:    *)
(* create_subscriber, subscribe_to, unsubscribe_from, publish and          *)
(* receiver().recv_async().                                                *)
(***************************************************************************)

\* Number of messages published.
MaxMessages == 3
\* Number of subscribe_to and unsubscribe_from calls.
MaxSubscriptionCalls == 4

\* The ids of the two subscribers of multiple_subscribers_test.
SubscriberIds == {1, 2}
Topics == {"a", "b"}

\* circulate::Message: payloads are numbered in publish order.
Message(topic, payload) == [topic |-> topic, payload |-> payload]

\* PubSub::create_subscriber: the relay hands out the next id and an empty
\* queue.
create_relay_subscriber ==
    /\ DOMAIN relay_subscribers # SubscriberIds
    /\ LET id == Cardinality(DOMAIN relay_subscribers) + 1
       IN  /\ relay_subscribers' =
                [s \in DOMAIN relay_subscribers \cup {id} |->
                    IF s = id THEN <<>> ELSE relay_subscribers[s]]
           /\ subscribed_to' =
                [s \in DOMAIN subscribed_to \cup {id} |->
                    IF s = id THEN {} ELSE subscribed_to[s]]
           /\ received' =
                [s \in DOMAIN received \cup {id} |->
                    IF s = id THEN <<>> ELSE received[s]]
    /\ UNCHANGED <<relay_topics, subscription_calls, published, notPubsubVars>>

\* The relay's entry of a topic after unsubscribe_from, handed in for the
\* entry's update: the subscriber stays.
unsubscribed_stays(subscribers_of_topic, id) == subscribers_of_topic
\* The relay's entry of a topic after subscribe_to.
subscribed(subscribers_of_topic, id) == subscribers_of_topic \cup {id}
\* The relay's entry of a topic after unsubscribe_from.
unsubscribed(subscribers_of_topic, id) == subscribers_of_topic \ {id}

\* Subscriber::subscribe_to(topic).
subscribe_to(id, topic) ==
    /\ id \in DOMAIN relay_subscribers
    /\ subscription_calls < MaxSubscriptionCalls
    /\ subscription_calls' = subscription_calls + 1
    /\ relay_topics' = [relay_topics EXCEPT ![topic] = subscribed(@, id)]
    /\ subscribed_to' = [subscribed_to EXCEPT ![id] = @ \cup {topic}]
    /\ UNCHANGED <<relay_subscribers, published, received, notPubsubVars>>

\* Subscriber::unsubscribe_from(topic).
unsubscribe_from(id, topic) ==
    /\ id \in DOMAIN relay_subscribers
    /\ subscription_calls < MaxSubscriptionCalls
    /\ subscription_calls' = subscription_calls + 1
    /\ relay_topics' = [relay_topics EXCEPT ![topic] = unsubscribed(@, id)]
    /\ subscribed_to' = [subscribed_to EXCEPT ![id] = @ \ {topic}]
    /\ UNCHANGED <<relay_subscribers, published, received, notPubsubVars>>

\* The subscribers a message is enqueued to, handed in for the relay's
\* lookup: every subscriber.
recipients_all(topics, queues, topic) == DOMAIN queues
\* publish: the subscribers currently subscribed to the topic.
recipients(topics, queues, topic) == topics[topic] \cap DOMAIN queues

\* PubSub::publish(topic, payload): the message is enqueued to every
\* subscriber of the topic.
publish(topic) ==
    /\ Len(published) < MaxMessages
    /\ LET message == Message(topic, Len(published) + 1)
       IN  /\ relay_subscribers' =
                [s \in DOMAIN relay_subscribers |->
                    IF s \in recipients(relay_topics, relay_subscribers, topic)
                    THEN Append(relay_subscribers[s], message)
                    ELSE relay_subscribers[s]]
           /\ published' = Append(published,
                [message |-> message,
                 owed_to |-> { s \in DOMAIN subscribed_to :
                                topic \in subscribed_to[s] }])
    /\ UNCHANGED <<relay_topics, subscribed_to, subscription_calls, received,
                   notPubsubVars>>

\* subscriber.receiver().recv_async(): the oldest queued message.
recv_async(id) ==
    /\ id \in DOMAIN relay_subscribers
    /\ relay_subscribers[id] # <<>>
    /\ received' = [received EXCEPT ![id] = Append(@, Head(relay_subscribers[id]))]
    /\ relay_subscribers' = [relay_subscribers EXCEPT ![id] = Tail(@)]
    /\ UNCHANGED <<relay_topics, subscribed_to, subscription_calls, published,
                   notPubsubVars>>

\* Relay::default().
InitPubsub ==
    /\ relay_subscribers = [s \in {} |-> <<>>]
    /\ relay_topics = [topic \in Topics |-> {}]
    /\ subscribed_to = [s \in {} |-> {}]
    /\ subscription_calls = 0
    /\ published = <<>>
    /\ received = [s \in {} |-> <<>>]
QuietPubsub == InitPubsub

NextPubsub ==
    \/ create_relay_subscriber
    \/ \E id \in SubscriberIds, topic \in Topics : subscribe_to(id, topic)
    \/ \E id \in SubscriberIds, topic \in Topics : unsubscribe_from(id, topic)
    \/ \E topic \in Topics : publish(topic)
    \/ \E id \in SubscriberIds : recv_async(id)

(***************************************************************************)
(* Database and schema registry: storage.rs.                               *)
(* The calls made on the StorageInstance itself, which check no permission.*)
(***************************************************************************)

\* The names handed to the calls: the admin database, a valid name, the same
\* name in another case, the empty name and an invalid one.
RegistryNames == {ADMIN_DATABASE_NAME, <<"d", "b">>, <<"D", "b">>, <<>>, <<"-">>}

NoDatabaseCall == [op |-> "none", name |-> <<>>, result |-> "none"]

\* What register_schema returns for what insert returned, handed in for the
\* match: always Ok.
register_result_ok(previous) == "Ok"
\* Storage::register_schema: the result for what schemas.insert returned.
register_result(previous) ==
    IF previous = None THEN "Ok" ELSE "SchemaAlreadyRegistered"

\* Storage::register_schema::<DB>().
register_schema(DB) ==
    LET name == schema_name(DB)
        previous == IF name \in DOMAIN schemas THEN Some(schemas[name]) ELSE None
    IN  /\ schemas' = [n \in DOMAIN schemas \cup {name} |->
                        IF n = name THEN DB ELSE schemas[n]]
        /\ database_call' = [op |-> "register_schema", name |-> name,
                             result |-> register_result(previous)]
        /\ UNCHANGED <<available_databases, database_records, notRegistryVars>>

\* StorageInstance::create_database_with_schema.
instance_create_database(name, schema, only_if_needed) ==
    LET created == CreateDatabase(available_databases, database_records,
                                  schemas, name, schema, only_if_needed)
    IN  /\ available_databases' = created.databases
        /\ database_records' = created.records
        /\ database_call' = [op |-> "create_database", name |-> name,
                             result |-> created.result]
        /\ UNCHANGED <<schemas, notRegistryVars>>

\* StorageInstance::delete_database. The record of a database is looked up in
\* the admin database after the directory of the deleted one is removed: when
\* the deleted database is the admin database itself the lookup reads files
\* that are gone, and any of its outcomes is possible.
instance_delete_database(name) ==
    LET deleted == DeleteDatabase(available_databases, database_records, name)
    IN  /\ available_databases' = deleted.databases
        /\ database_records' = deleted.records
        /\ \E result \in IF name = ADMIN_DATABASE_NAME
                         THEN {"Ok", "DatabaseNotFound", "Nebari"}
                         ELSE {deleted.result} :
            database_call' = [op |-> "delete_database", name |-> name,
                              result |-> result]
        /\ UNCHANGED <<schemas, notRegistryVars>>

\* Storage::open: create_admin_database_if_needed has registered the admin
\* schema and created the admin database.
InitRegistry ==
    /\ schemas = [n \in {schema_name("Admin")} |-> "Admin"]
    /\ database_call = NoDatabaseCall
QuietRegistry == InitRegistry

NextRegistry ==
    \/ \E DB \in SchemaTypes : register_schema(DB)
    \/ \E name \in RegistryNames, DB \in SchemaTypes, only_if_needed \in BOOLEAN :
        instance_create_database(name, schema_name(DB), only_if_needed)
    \/ \E name \in RegistryNames : instance_delete_database(name)

(***************************************************************************)
(* Locks of Data: storage.rs.                                              *)
(* Each thread runs one storage operation, which takes and gives back the   *)
(* guards of the locks in the order of its code.                            *)
(***************************************************************************)

\* Number of threads running storage operations.
NumLockThreads == 2
LockThreads == 1..NumLockThreads

\* The guarded fields of Data; open_roots is a Mutex, the others are RwLocks.
DataLocks == {"available_databases", "schemas", "sessions", "subscribers",
              "open_roots"}

Acquire(lock, mode) == [do |-> "acquire", lock |-> lock, mode |-> mode]
Release(lock) == [do |-> "release", lock |-> lock, mode |-> "none"]

\* StorageInstance::open_roots: the Mutex is held for the whole call.
open_roots_guards == << Acquire("open_roots", "lock"), Release("open_roots") >>

\* The guards each operation takes (read, write, lock) and drops, in order.
\* A guard bound with `let` is dropped at the end of its block, after the
\* guards bound later in the block.
LockProgram(op) ==
    CASE op = "drop_session" ->
            << Acquire("sessions", "write"), Acquire("subscribers", "write"),
               Release("subscribers"), Release("sessions") >>
      [] op = "create_database_with_schema" ->
            << Acquire("schemas", "read"), Release("schemas"),
               Acquire("available_databases", "write") >>
            \o open_roots_guards
            \o << Release("available_databases") >>
      [] op = "delete_database" ->
            open_roots_guards
            \o << Acquire("available_databases", "write"),
                  Acquire("open_roots", "lock"),
                  Release("open_roots"), Release("available_databases") >>
      [] op = "database_without_schema" ->
            << Acquire("available_databases", "read"),
               Release("available_databases"),
               Acquire("schemas", "write"), Release("schemas") >>
      [] op = "open_roots" -> open_roots_guards

LockOperations == {"drop_session", "create_database_with_schema",
                   "delete_database", "database_without_schema", "open_roots"}

IdleLockThread == [op |-> "none", pc |-> 0, held |-> {}]

\* parking_lot: a read guard is shared among readers, a write guard or a
\* Mutex guard excludes every other guard.
CanAcquire(t, lock, mode) ==
    \A other \in LockThreads \ {t} :
        \A guard \in lock_threads[other].held :
            guard.lock = lock => (mode = "read" /\ guard.mode = "read")

\* A thread enters a storage operation.
LockBegin(t) ==
    /\ lock_threads[t].op = "none"
    /\ \E op \in LockOperations :
        lock_threads' = [lock_threads EXCEPT ![t] = [op |-> op, pc |-> 1, held |-> {}]]
    /\ UNCHANGED notLocksVars

\* The thread takes or drops the next guard of its operation; after the last
\* the operation returns and the thread is free for its next operation.
LockStep(t) ==
    LET thread == lock_threads[t]
        program == LockProgram(thread.op)
        step == program[thread.pc]
        held == IF step.do = "acquire"
                THEN thread.held \cup {[lock |-> step.lock, mode |-> step.mode]}
                ELSE { guard \in thread.held : guard.lock # step.lock }
    IN
    /\ thread.op # "none"
    /\ step.do = "acquire" => CanAcquire(t, step.lock, step.mode)
    /\ lock_threads' = [lock_threads EXCEPT ![t] =
          IF thread.pc = Len(program) THEN IdleLockThread
          ELSE [op |-> thread.op, pc |-> thread.pc + 1, held |-> held]]
    /\ UNCHANGED notLocksVars

InitLocks == lock_threads = [t \in LockThreads |-> IdleLockThread]
QuietLocks == InitLocks
NextLocks == \E t \in LockThreads : LockBegin(t) \/ LockStep(t)

(***************************************************************************)
(* Page codec: storage.rs, TreeVault.                                      *)
(* Bytes are named by their value; the LZ4 block and the vault's payload    *)
(* are the input behind a mark no page byte equals.                         *)
(***************************************************************************)

\* Longest payload handed to the codec.
MaxPayloadLen == 5
\* Payloads of at least this length are compressed; stands for the 128 of
\* encrypt.
CompressionThreshold == 5

PageBytes == {"t", "r", "v", "0x00", "0x80"}
Magic == <<"t", "r", "v">>

\* lz4_flex::block::compress_prepend_size and decompress_size_prepended.
compress_prepend_size(bytes) == <<"lz4">> \o bytes
decompress_size_prepended(bytes) ==
    IF bytes # <<>> /\ Head(bytes) = "lz4" THEN Ok(Tail(bytes)) ELSE Err("Lz4")

\* Vault::encrypt_payload and Vault::decrypt_payload; bytes that are no
\* payload of the vault are passed through.
encrypt_payload(bytes) == <<"vault">> \o bytes
decrypt_payload(bytes) ==
    IF bytes # <<>> /\ Head(bytes) = "vault" THEN Ok(Tail(bytes)) ELSE Ok(bytes)

\* Bit 7 of the flags byte, and Compression::from_u8 of its bits 0-6.
is_encrypted(flags) == flags \in {"0x80", "0x81"}
from_u8(flags) == IF flags \in {"0x01", "0x81"} THEN Some("Lz4") ELSE None

\* The TreeVaults new_if_needed builds, by the features of the build.
TreeVaults ==
    { vault \in [build : {"compression+encryption"}, key : BOOLEAN,
                 compression : {None, Some("Lz4")}] :
        vault.key \/ vault.compression # None }
    \cup { [build |-> "compression", key |-> FALSE, compression |-> Some("Lz4")] }

\* TreeVault::header.
header(vault, compressed) ==
    IF vault.key
    THEN IF compressed /\ vault.compression # None THEN "0x81" ELSE "0x80"
    ELSE IF compressed /\ vault.compression # None THEN "0x01" ELSE "0x00"

\* <TreeVault as nebari::Vault>::encrypt, in both builds.
encrypt(vault, payload) ==
    LET includes_compression ==
            Len(payload) >= CompressionThreshold /\ vault.compression = Some("Lz4")
        compressed == IF includes_compression THEN compress_prepend_size(payload)
                      ELSE payload
    IN  IF vault.build = "compression+encryption"
        THEN LET complete == IF vault.key THEN encrypt_payload(compressed)
                             ELSE compressed
             IN  IF header(vault, includes_compression) # "0x00"
                 THEN Magic \o <<header(vault, includes_compression)>> \o complete
                 ELSE complete
        ELSE IF includes_compression
             THEN Magic \o <<"0x01">> \o compressed
             ELSE payload

\* decrypt of the build without encryption, handed in without the test of
\* the encrypted bit.
decrypt_compression_only_blind(bytes) ==
    IF Len(bytes) >= 4 /\ SubSeq(bytes, 1, 3) = Magic
    THEN IF from_u8(bytes[4]) = Some("Lz4")
         THEN decompress_size_prepended(SubSeq(bytes, 5, Len(bytes)))
         ELSE Ok(SubSeq(bytes, 5, Len(bytes)))
    ELSE Ok(bytes)

\* <TreeVault as nebari::Vault>::decrypt of the build without encryption.
decrypt_compression_only(bytes) ==
    IF Len(bytes) >= 4 /\ SubSeq(bytes, 1, 3) = Magic
    THEN IF is_encrypted(bytes[4]) THEN Err("EncryptionDisabled")
         ELSE IF from_u8(bytes[4]) = Some("Lz4")
         THEN decompress_size_prepended(SubSeq(bytes, 5, Len(bytes)))
         ELSE Ok(SubSeq(bytes, 5, Len(bytes)))
    ELSE Ok(bytes)

\* <TreeVault as nebari::Vault>::decrypt of the build with both features.
decrypt_with_encryption(bytes) ==
    IF Len(bytes) >= 4 /\ SubSeq(bytes, 1, 3) = Magic
    THEN LET decrypted == IF is_encrypted(bytes[4])
                          THEN decrypt_payload(SubSeq(bytes, 5, Len(bytes)))
                          ELSE Ok(SubSeq(bytes, 5, Len(bytes)))
         IN  IF decrypted.error # "none" THEN decrypted
             ELSE IF from_u8(bytes[4]) = Some("Lz4")
             THEN decompress_size_prepended(Unwrap(decrypted.payload))
             ELSE decrypted
    ELSE decrypt_payload(bytes)

decrypt(vault, bytes) ==
    IF vault.build = "compression+encryption"
    THEN decrypt_with_encryption(bytes)
    ELSE decrypt_compression_only(bytes)

RECURSIVE PayloadsOfLen(_)
PayloadsOfLen(n) ==
    IF n = 0 THEN {<<>>}
    ELSE { Append(bytes, byte) : bytes \in PayloadsOfLen(n - 1), byte \in PageBytes }
Payloads == UNION { PayloadsOfLen(n) : n \in 0..MaxPayloadLen }

\* nebari writes a page: the payload goes through encrypt.
VaultEncrypt ==
    /\ page = None
    /\ page' = Some([bytes |-> encrypt(codec_input.vault, codec_input.payload),
                     from |-> "encrypt"])
    /\ UNCHANGED <<codec_input, decoded, notCodecVars>>

\* nebari finds a page on disk that some other configuration wrote.
VaultRead ==
    /\ page = None
    /\ page' = Some([bytes |-> codec_input.payload, from |-> "disk"])
    /\ UNCHANGED <<codec_input, decoded, notCodecVars>>

\* nebari reads the page: it goes through decrypt.
VaultDecrypt ==
    /\ page # None /\ decoded = None
    /\ decoded' = Some(decrypt(codec_input.vault, Unwrap(page).bytes))
    /\ UNCHANGED <<codec_input, page, notCodecVars>>

InitCodec ==
    /\ codec_input \in [vault : TreeVaults, payload : Payloads]
    /\ page = None
    /\ decoded = None
QuietCodec ==
    /\ codec_input = [vault |-> [build |-> "compression", key |-> FALSE,
                                 compression |-> Some("Lz4")],
                      payload |-> <<>>]
    /\ page = None
    /\ decoded = None
NextCodec == VaultEncrypt \/ VaultRead \/ VaultDecrypt

(***************************************************************************)
(* Id-less responses: client.rs, process_response_payload.                 *)
(* The server sends payloads without an id for pub/sub messages and for     *)
(* out-of-band responses of a custom api.                                   *)
(***************************************************************************)

\* Id-less payloads the reader processes at most.
MaxAdhoc == 2

\* Subscriber ids the server names; the client registers the first only.
ClientSubscriberIds == {1, 2}
\* custom_apis: the names registered when the client was built, with or
\* without a callback.
custom_apis == [name \in {"api", "quiet"} |-> IF name = "api" THEN Some("callback") ELSE None]
ApiNames == {"api", "quiet", "unknown"}

MessageReceived(subscriber_id) ==
    [id |-> None,
     wrapped |-> [kind |-> "MessageReceived", subscriber_id |-> subscriber_id,
                  topic |-> "topic", payload |-> "payload"]]
ApiResponse(name) ==
    [id |-> None, wrapped |-> [kind |-> "Api", name |-> name, response |-> "bytes"]]
\* Any other response without an id, such as Response::Server.
OtherResponse == [id |-> None, wrapped |-> [kind |-> "Server"]]
AdhocPayloads ==
    { MessageReceived(subscriber_id) : subscriber_id \in ClientSubscriberIds }
        \cup { ApiResponse(name) : name \in ApiNames }
        \cup { OtherResponse }

\* circulate::Message built from the payload.
ClientMessage(wrapped) == [topic |-> wrapped.topic, payload |-> wrapped.payload]

\* A sender and the queue behind it; `connected` while the receiver lives.
NewQueue == [connected |-> TRUE, queue |-> <<>>]

\* The subscriber map with a failed sender left in it.
send_message_keep(map, subscriber_id, message) ==
    IF subscriber_id \in DOMAIN map /\ map[subscriber_id].connected
    THEN [map EXCEPT ![subscriber_id].queue = Append(@, message)]
    ELSE map
\* Lines 876-889: the message is sent to the sender registered under the id;
\* a sender whose send fails is removed.
send_message(map, subscriber_id, message) ==
    IF subscriber_id \in DOMAIN map
    THEN IF map[subscriber_id].connected
         THEN [map EXCEPT ![subscriber_id].queue = Append(@, message)]
         ELSE [other \in DOMAIN map \ {subscriber_id} |-> map[other]]
    ELSE map

\* Lines 862-870: the callback registered under the name receives the response.
response_received(responses, name) ==
    IF name \in DOMAIN custom_apis /\ custom_apis[name] # None
    THEN [responses EXCEPT ![name] = @ + 1]
    ELSE responses

\* Client::register_subscriber.
register_subscriber(id) ==
    /\ id \notin DOMAIN client_subscribers
    /\ client_subscribers' =
        [other \in DOMAIN client_subscribers \cup {id} |->
            IF other = id THEN NewQueue ELSE client_subscribers[other]]
    /\ UNCHANGED <<api_responses, adhoc>>
    /\ UNCHANGED notAdhocVars

\* The receiver of a subscriber's queue is dropped.
ReceiverDropped(id) ==
    /\ id \in DOMAIN client_subscribers
    /\ client_subscribers[id].connected
    /\ client_subscribers' = [client_subscribers EXCEPT ![id].connected = FALSE]
    /\ UNCHANGED <<api_responses, adhoc>>
    /\ UNCHANGED notAdhocVars

\* process with process_response_payload, lines 860-894: a payload without an
\* id arrives on the open connection.
process_adhoc(payload) ==
    /\ reader = "running"
    /\ connection = "open"
    /\ adhoc.count < MaxAdhoc
    /\ payload.id = None
    /\ adhoc' = [count |-> adhoc.count + 1, last |-> Some(payload)]
    /\ IF payload.wrapped.kind = "Api"
       THEN /\ api_responses' = response_received(api_responses, payload.wrapped.name)
            /\ UNCHANGED client_subscribers
       ELSE IF payload.wrapped.kind = "MessageReceived"
       THEN /\ client_subscribers' =
                send_message(client_subscribers, payload.wrapped.subscriber_id,
                             ClientMessage(payload.wrapped))
            /\ UNCHANGED api_responses
       ELSE UNCHANGED <<client_subscribers, api_responses>>
    /\ UNCHANGED notAdhocVars

InitAdhoc ==
    /\ client_subscribers = [id \in {} |-> NewQueue]
    /\ api_responses = [name \in DOMAIN custom_apis |-> 0]
    /\ adhoc = [count |-> 0, last |-> None]
QuietAdhoc == InitAdhoc

NextAdhoc ==
    \/ register_subscriber(1)
    \/ ReceiverDropped(1)
    \/ \E payload \in AdhocPayloads : process_adhoc(payload)

(***************************************************************************)
(* Key/value operations and the expiration task: keyvalue.rs.              *)
(* Concurrent callers set and remove one full key; each operation writes    *)
(* the tree and afterwards sends its expiration update to the task.         *)
(***************************************************************************)

RaceCallers == {1, 2}
\* The full key the callers work on.
RaceKey == "atree.akey"

notExpRaceVars == <<kvVars, viewVars, storageVars, clientVars, pubsubVars,
                    nameVars, registryVars, numericVars, locksVars, codecVars,
                    adhocVars>>

\* Operations that have written the tree or sent their update.
RaceOperations ==
    sent + Cardinality({ c \in RaceCallers : kv_pending[c] # None })

\* execute_set_operation, lines 155-179: fetch_and_update stores the entry.
RaceSetWrite(c, expiration) ==
    /\ kv_pending[c] = None
    /\ senders > 0
    /\ RaceOperations < MaxUpdates
    /\ key_tree' = key_tree \cup {RaceKey}
    /\ kv_expiration' = [kv_expiration EXCEPT ![RaceKey] = expiration]
    /\ kv_pending' = [kv_pending EXCEPT ![c] = Some(ExpirationUpdate(RaceKey, expiration))]
    /\ UNCHANGED <<now, updates, sent, senders, tracked_keys, expiration_order,
                   expTask, exp_hist>>
    /\ UNCHANGED notExpRaceVars

\* execute_delete_operation, lines 240-243, and execute_get_operation with
\* delete, lines 212-216: tree.remove found an entry.
RaceRemoveWrite(c) ==
    /\ kv_pending[c] = None
    /\ senders > 0
    /\ RaceOperations < MaxUpdates
    /\ RaceKey \in key_tree
    /\ key_tree' = key_tree \ {RaceKey}
    /\ kv_pending' = [kv_pending EXCEPT ![c] = Some(ExpirationUpdate(RaceKey, None))]
    /\ UNCHANGED kv_expiration
    /\ UNCHANGED <<now, updates, sent, senders, tracked_keys, expiration_order,
                   expTask, exp_hist>>
    /\ UNCHANGED notExpRaceVars

\* db.update_key_expiration(full_key, ..), lines 181, 214 and 242: the
\* operation's update enters the channel of the task.
RaceSend(c) ==
    /\ kv_pending[c] # None
    /\ updates' = Append(updates, Unwrap(kv_pending[c]))
    /\ sent' = sent + 1
    /\ kv_pending' = [kv_pending EXCEPT ![c] = None]
    /\ UNCHANGED kv_expiration
    /\ UNCHANGED <<now, key_tree, senders, tracked_keys, expiration_order,
                   expTask, exp_hist>>
    /\ UNCHANGED notExpRaceVars

InitRace ==
    /\ kv_pending = [c \in RaceCallers |-> None]
    /\ kv_expiration = [k \in {RaceKey} |-> None]
QuietRace == InitRace

NextRace ==
    \/ \E c \in RaceCallers,
          expiration \in {None} \cup { Some(t) : t \in Timestamps } :
        RaceSetWrite(c, expiration)
    \/ \E c \in RaceCallers : RaceRemoveWrite(c)
    \/ \E c \in RaceCallers : RaceSend(c)
    \/ ExpTop \/ ExpRecv \/ ExpTimeoutRecv \/ ExpElapsed \/ ExpTryRecv
    \/ ExpProcess \/ ExpRemove
    \/ Tick

(***************************************************************************)
(* Specifications.                                                         *)
(***************************************************************************)
\* Each specification starts its own subsystem in its initial states and leaves
\* the others in the state a fresh storage has.
InitSpecKv ==
    /\ InitKv /\ QuietView /\ QuietExp /\ QuietStorage
    /\ QuietClient /\ QuietPubsub /\ QuietName /\ QuietRegistry
    /\ QuietNumeric /\ QuietLocks /\ QuietCodec /\ QuietAdhoc
    /\ QuietRace
InitSpecView ==
    /\ QuietKv /\ InitView /\ QuietExp /\ QuietStorage
    /\ QuietClient /\ QuietPubsub /\ QuietName /\ QuietRegistry
    /\ QuietNumeric /\ QuietLocks /\ QuietCodec /\ QuietAdhoc
    /\ QuietRace
InitSpecExp ==
    /\ QuietKv /\ QuietView /\ InitExp /\ QuietStorage
    /\ QuietClient /\ QuietPubsub /\ QuietName /\ QuietRegistry
    /\ QuietNumeric /\ QuietLocks /\ QuietCodec /\ QuietAdhoc
    /\ QuietRace
InitSpecStorage ==
    /\ QuietKv /\ QuietView /\ QuietExp /\ InitStorage
    /\ QuietClient /\ QuietPubsub /\ QuietName /\ QuietRegistry
    /\ QuietNumeric /\ QuietLocks /\ QuietCodec /\ QuietAdhoc
    /\ QuietRace
InitSpecClient ==
    /\ QuietKv /\ QuietView /\ QuietExp /\ QuietStorage
    /\ InitClient /\ QuietPubsub /\ QuietName /\ QuietRegistry
    /\ QuietNumeric /\ QuietLocks /\ QuietCodec /\ QuietAdhoc
    /\ QuietRace
InitSpecPubsub ==
    /\ QuietKv /\ QuietView /\ QuietExp /\ QuietStorage
    /\ QuietClient /\ InitPubsub /\ QuietName /\ QuietRegistry
    /\ QuietNumeric /\ QuietLocks /\ QuietCodec /\ QuietAdhoc
    /\ QuietRace
InitSpecName ==
    /\ QuietKv /\ QuietView /\ QuietExp /\ QuietStorage
    /\ QuietClient /\ QuietPubsub /\ InitName /\ QuietRegistry
    /\ QuietNumeric /\ QuietLocks /\ QuietCodec /\ QuietAdhoc
    /\ QuietRace
InitSpecRegistry ==
    /\ QuietKv /\ QuietView /\ QuietExp /\ InitStorage
    /\ QuietClient /\ QuietPubsub /\ QuietName /\ InitRegistry
    /\ QuietNumeric /\ QuietLocks /\ QuietCodec /\ QuietAdhoc
    /\ QuietRace
InitSpecNumeric ==
    /\ QuietKv /\ QuietView /\ QuietExp /\ QuietStorage
    /\ QuietClient /\ QuietPubsub /\ QuietName /\ QuietRegistry
    /\ InitNumeric /\ QuietLocks /\ QuietCodec /\ QuietAdhoc
    /\ QuietRace
InitSpecLocks ==
    /\ QuietKv /\ QuietView /\ QuietExp /\ QuietStorage
    /\ QuietClient /\ QuietPubsub /\ QuietName /\ QuietRegistry
    /\ QuietNumeric /\ InitLocks /\ QuietCodec /\ QuietAdhoc
    /\ QuietRace
InitSpecCodec ==
    /\ QuietKv /\ QuietView /\ QuietExp /\ QuietStorage
    /\ QuietClient /\ QuietPubsub /\ QuietName /\ QuietRegistry
    /\ QuietNumeric /\ QuietLocks /\ InitCodec /\ QuietAdhoc
    /\ QuietRace
InitSpecAdhoc ==
    /\ QuietKv /\ QuietView /\ QuietExp /\ QuietStorage
    /\ QuietClient /\ QuietPubsub /\ QuietName /\ QuietRegistry
    /\ QuietNumeric /\ QuietLocks /\ QuietCodec /\ InitAdhoc
    /\ QuietRace
InitSpecRace ==
    /\ QuietKv /\ QuietView /\ QuietExp /\ QuietStorage
    /\ QuietClient /\ QuietPubsub /\ QuietName /\ QuietRegistry
    /\ QuietNumeric /\ QuietLocks /\ QuietCodec /\ QuietAdhoc
    /\ InitRace

SpecKv == InitSpecKv /\ [][NextKv]_vars
SpecKvKeep == InitSpecKv /\ [][NextKvKeep]_vars
SpecNumeric == InitSpecNumeric /\ [][NextNumeric]_vars
SpecView == InitSpecView /\ [][NextView]_vars
SpecExp == InitSpecExp /\ [][NextExp]_vars
SpecStorage == InitSpecStorage /\ [][NextStorage]_vars
SpecClient == InitSpecClient /\ [][NextClient]_vars
SpecPubsub == InitSpecPubsub /\ [][NextPubsub]_vars
SpecName == InitSpecName /\ [][NextName]_vars
SpecRegistry == InitSpecRegistry /\ [][NextRegistry]_vars
SpecLocks == InitSpecLocks /\ [][NextLocks]_vars
SpecCodec == InitSpecCodec /\ [][NextCodec]_vars
SpecAdhoc == InitSpecAdhoc /\ [][NextClient \/ NextAdhoc]_vars
SpecRace == InitSpecRace /\ [][NextRace]_vars
\* The expiration task is a spawned task that runs whenever it can, and the
\* clock advances.
SpecExpFair == SpecExp /\ WF_vars(ExpTaskNext) /\ WF_vars(Tick)
SpecExpClose == InitSpecExp /\ [][NextExpClose]_vars
\* The task is scheduled as long as it can take a step.
SpecExpCloseFair == SpecExpClose /\ WF_vars(ExpTaskNext \/ ExpDisconnected)

(***************************************************************************)
(* Serial executions of the key/value commands.                            *)
(***************************************************************************)

\* The stored entry after `op` ran alone against `stored`.
SerialApply(op, stored) ==
    IF op.command = "Set"
    THEN SetNext(Entry(op.value, op.expiration), op, stored)
    ELSE IF NumericExisting(stored).value.variant = "Bytes"
         THEN stored
         ELSE Some(NumericNext(op, stored))

RECURSIVE SerialOutcomes(_, _)
SerialOutcomes(stored, tasks) ==
    IF tasks = {} THEN {stored}
    ELSE UNION { SerialOutcomes(SerialApply(kvTask[t].op, stored), tasks \ {t}) :
                   t \in tasks }

AllKvDone == \A t \in KvTasks : kvTask[t].pc = "done"

\* C1: when every concurrent set/increment/decrement on the full key has
\* returned, the stored entry is the one some serial order of those operations
\* leaves, starting from the missing key.
C1_SerialOrder == AllKvDone => kv_tree \in SerialOutcomes(None, KvTasks)

\* C1 (instance): N concurrent increment(key, 1) on a missing key leave
\* UnsignedInteger(N) (modulo the integer width), no update is lost.
C1_NoLostIncrement ==
    (AllKvDone /\ \A t \in KvTasks :
        kvTask[t].op = NumericCommand("Increment", UnsignedInteger(1), FALSE))
    => kv_tree = Some(Entry(UnsignedInteger(WrapU64(NumKvTasks)), None))

C1_Theorem == C1_SerialOrder /\ C1_NoLostIncrement

\* All tasks incremented by one, and at least one compare-and-swap conflicted.
C1_Witness ==
    /\ AllKvDone
    /\ \A t \in KvTasks :
          kvTask[t].op = NumericCommand("Increment", UnsignedInteger(1), FALSE)
    /\ \E t \in KvTasks : kvTask[t].conflicted
    /\ kv_tree = Some(Entry(UnsignedInteger(WrapU64(NumKvTasks)), None))
(***************************************************************************)
(* View maintenance claims.                                                *)
(***************************************************************************)

\* The view's index holds every document of the transactions up to `id`, mapped
\* by the view's current version.  (A document is written once, by the
\* transaction of the same number, so its entry cannot be out of date.)
IndexReflects(id) ==
    \A d \in 1..id :
        /\ d \in DOMAIN document_map
        /\ document_map[d] = ViewVersion

\* C2: update_view_if_needed returns Ok having read transaction id n only when
\* the recorded last-indexed id it reads is >= n or the Mapper it awaited
\* returned an id >= n, and from then on the index reflects the transactions up
\* to n.
C2_ViewFreshness ==
    /\ [][\A c \in Callers :
            (/\ caller[c].pc # "returned"
             /\ caller'[c].pc = "returned"
             /\ caller'[c].current_transaction_id > 0) =>
                \/ /\ caller[c].pc = "check_status"
                   /\ view_update_last_status # None
                   /\ Unwrap(view_update_last_status)
                        >= caller[c].current_transaction_id
                \/ /\ caller[c].pc = "wait_mapper"
                   /\ Unwrap(caller[c].received).ok
                   /\ Unwrap(caller[c].received).id
                        >= caller[c].current_transaction_id]_vars
    /\ [](\A c \in Callers :
            caller[c].pc = "returned" =>
                IndexReflects(caller[c].current_transaction_id))

\* A caller has returned having read the id of a transaction committed while
\* the callers were running, and the index reflects it.
C2_Witness ==
    \E c \in Callers :
        /\ caller[c].pc = "returned"
        /\ caller[c].current_transaction_id = MaxTransactions
        /\ IndexReflects(caller[c].current_transaction_id)

\* C3: concurrent update_view_if_needed calls cause exactly one
\* IntegrityScanner execution: never is a second one enqueued.
C3_OneIntegrityScan ==
    (\A c \in Callers : caller[c].pc # "idle" /\ caller[c].pc # "failed")
        => ScannerExecutions <= 1

(***************************************************************************)
(* Key expiration claims.                                                  *)
(***************************************************************************)

Deadline(k) == Unwrap(exp_hist[k].expiration)

C5_ExpirationCancel ==
    \A k \in ExpKeys :
        (exp_hist[k].expiration = None /\ exp_hist[k].replaced > 0) =>
            /\ k \notin DOMAIN tracked_keys
            /\ k \notin Range(expiration_order)
            /\ k \notin expTask.keys_to_remove
            /\ ~exp_hist[k].removed

\* A key's deadline was cleared before it passed, the deadline is now behind
\* the clock, the task has nothing left to do, and the key is still stored.
C5_Witness ==
    \E k \in ExpKeys :
        /\ exp_hist[k].expiration = None
        /\ exp_hist[k].replaced > 0
        /\ exp_hist[k].replaced <= now
        /\ k \in key_tree
        /\ updates = <<>>
        /\ sent = MaxUpdates
        /\ expTask.pc \in {"recv", "timeout_recv"}

C6_WitnessRemoved ==
    \E k \in ExpKeys :
        /\ exp_hist[k].expiration # None
        /\ exp_hist[k].replaced > 0
        /\ exp_hist[k].replaced < Deadline(k)
        /\ exp_hist[k].removed
        /\ exp_hist[k].found

\* C7: keys leave the tree in the order of their deadlines whatever the order of
\* their updates: the task waits for the earliest tracked deadline, and a key
\* disappears from the tree only when its own deadline has passed.
C7_DeadlineOrder ==
    /\ [](expTask.pc = "timeout_recv" =>
            \A k \in DOMAIN tracked_keys :
                tracked_keys[expiration_order[1]] <= tracked_keys[k])
    /\ [][\A k \in ExpKeys :
            (k \in key_tree /\ k \notin key_tree') =>
                (exp_hist[k].expiration # None /\ Deadline(k) <= now)]_vars

\* A key with the earlier deadline whose update came later is gone, the key
\* with the later deadline whose update came first is still stored.
C7_Witness ==
    \E early, late \in ExpKeys :
        /\ exp_hist[early].expiration # None
        /\ exp_hist[late].expiration # None
        /\ exp_hist[late].serial < exp_hist[early].serial
        /\ Deadline(early) <= now
        /\ now < Deadline(late)
        /\ exp_hist[early].removed
        /\ exp_hist[early].found
        /\ late \in key_tree
        /\ late \in DOMAIN tracked_keys

(***************************************************************************)
(* Storage session claims.                                                 *)
(***************************************************************************)
\* What the permission-gated calls may change.
GatedState == <<available_databases, sessions, last_session_id, storage_handles>>

\* C8: a call made through a Storage value whose session's permissions do not
\* allow the call's action returns PermissionDenied and changes no storage
\* state.
C8_PermissionChecked ==
    [][(storage_call'.action # "none"
            /\ storage_call'.action \notin storage_call'.permissions)
        => (storage_call'.result = "PermissionDenied"
            /\ GatedState' = GatedState)]_vars

\* The Storage values that hold the session.
HandlesOf(id) ==
    { h \in LiveHandles : storage_handles[h].authentication = Some(id) }
\* The subscribers whose session_id is the session.
SubscribersOf(id) ==
    { s \in DOMAIN subscribers : subscribers[s] = Some(id) }

\* C9: once the last Storage value of a session is dropped, the session is
\* out of the sessions table and no subscriber of it remains in subscribers
\* or subscribers_by_session; and subscribers_by_session[sid] is always
\* exactly the set of subscribers whose session_id is sid.
C9_SessionDropped ==
    /\ \A id \in 1..last_session_id :
        HandlesOf(id) = {} =>
            /\ id \notin sessions
            /\ id \notin DOMAIN subscribers_by_session
            /\ SubscribersOf(id) = {}
    /\ \A id \in DOMAIN subscribers_by_session :
        subscribers_by_session[id] = SubscribersOf(id)

(***************************************************************************)
(* Client worker claims.                                                   *)
(***************************************************************************)
\* C10: a request that leaves the outstanding-request table is resolved at
\* that moment, with the server's response or, when the connection fails,
\* with a disconnection error; no request is resolved twice.
C10_OutstandingResolved ==
    [][\A request \in Outstanding(outstanding_requests)
                            \ Outstanding(outstanding_requests') :
            /\ Len(results'[request]) = 1
            /\ results[request] = <<>>]_vars

\* The responses a request's responder was sent.
Responses(request) ==
    { index \in 1..Len(results[request]) : results[request][index].error = "none" }

\* C11: a response envelope with id n goes as Ok(response) to the responder
\* registered under n, which leaves the table; a responder is never sent a
\* response whose id is not its request's id, nor more than one response.
C11_ResponseRouted ==
    /\ [][\A request \in Requests :
            (results'[request] # results[request]
                /\ results'[request][Len(results'[request])].error = "none")
            => LET payload == Unwrap(results'[request][Len(results'[request])].payload)
               IN  /\ payload \in payloads
                   /\ payload.id \in DOMAIN outstanding_requests
                   /\ outstanding_requests[payload.id] = request
                   /\ payload.id \notin DOMAIN outstanding_requests']_vars
    /\ [](\A request \in Requests :
            /\ Cardinality(Responses(request)) <= 1
            /\ \A index \in Responses(request) :
                Unwrap(results[request][index].payload).id = IdOf(request))

\* A response was delivered while another request was still in the table.
C11_Witness ==
    \E request \in Requests :
        /\ Responses(request) # {}
        /\ request \notin Outstanding(outstanding_requests)
        /\ outstanding_requests # EmptyMap

\* The requests the worker has yet to hand to a connection.
Pending ==
    Range(request_queue) \cup worker.initial_request

\* Each request is written to a transport at most once.
WrittenOnce == \A request \in Requests : written[request] <= 1

\* C12: no request is written to a transport more than once, and a pending
\* request the worker is done with was either written and registered, or
\* failed and was answered with the error.
C12_NoRetry ==
    /\ []WrittenOnce
    /\ [][\A request \in Pending \ Pending' :
            \/ /\ written'[request] = 1
               /\ request \in Outstanding(outstanding_requests')
            \/ /\ written'[request] = 0
               /\ results'[request] # <<>>
               /\ results'[request][Len(results'[request])].error # "none"]_vars

\* C13: when a connection attempt fails, the request the loop holds is sent
\* the connection error and the loop goes back to waiting for a request; the
\* next request it receives starts a new connection attempt.
C13_ConnectFailure ==
    [][/\ (worker.pc = "connect" /\ worker' # worker /\ connection' # "open")
            => /\ results'[Unwrap(worker.initial_request)] =
                    Append(results[Unwrap(worker.initial_request)], Err("connect"))
               /\ worker' = IdleWorker
               /\ written' = written
               /\ request_queue' = request_queue
       /\ (worker.pc = "recv" /\ worker' # worker)
            => /\ request_queue # <<>>
               /\ worker' = [pc |-> "connect",
                             initial_request |-> Some(Head(request_queue))]
               /\ connection \in {"none", "broken"}]_vars

\* A request was answered with the connection error and a later one was sent
\* on a connection made for it.
C13_Witness ==
    \E failed, later \in Requests :
        /\ failed < later
        /\ results[failed] = <<Err("connect")>>
        /\ written[later] = 1
        /\ later \notin Pending

(***************************************************************************)
(* Pub/sub claims.                                                         *)
(***************************************************************************)
\* The messages published that were owed to a subscriber, in publish order.
RECURSIVE Owed(_, _)
Owed(id, history) ==
    IF history = <<>>
    THEN <<>>
    ELSE LET rest == Owed(id, SubSeq(history, 1, Len(history) - 1))
             last == history[Len(history)]
         IN  IF id \in last.owed_to THEN Append(rest, last.message) ELSE rest

\* C14: what a subscriber has received, followed by what waits in its queue,
\* is the sequence of the published messages on the topics it was subscribed
\* to, in publish order, each message once.
C14_PublishOrder ==
    \A id \in DOMAIN relay_subscribers :
        received[id] \o relay_subscribers[id] = Owed(id, published)

\* The run of multiple_subscribers_test: a1, b1, a2 with subscriber 1 on a
\* and subscriber 2 on a and b, all received.
C14_Witness ==
    /\ DOMAIN relay_subscribers = SubscriberIds
    /\ received[1] = <<Message("a", 1), Message("a", 3)>>
    /\ received[2] = <<Message("a", 1), Message("b", 2), Message("a", 3)>>

\* C15: a message published to a topic while a subscriber is unsubscribed
\* from it never reaches the subscriber, before or after a later subscribe_to;
\* a message published while it is subscribed does.
C15_Unsubscribed ==
    /\ [][\A id \in DOMAIN relay_subscribers :
            (Len(published') = Len(published) + 1
                /\ published'[Len(published')].message.topic \notin subscribed_to[id])
            => relay_subscribers'[id] = relay_subscribers[id]]_vars
    /\ [](\A id \in DOMAIN relay_subscribers : \A index \in 1..Len(published) :
            LET reached ==
                    \E at \in 1..Len(received[id] \o relay_subscribers[id]) :
                        (received[id] \o relay_subscribers[id])[at] =
                            published[index].message
            IN  reached <=> id \in published[index].owed_to)

\* The run of unsubscribe_test: a1, unsubscribe, a2, subscribe, a3.
C15_Witness ==
    /\ 1 \in DOMAIN relay_subscribers
    /\ Len(published) = 3
    /\ \A index \in 1..3 : published[index].message.topic = "a"
    /\ 1 \in published[1].owed_to
    /\ 1 \notin published[2].owed_to
    /\ 1 \in published[3].owed_to
    /\ received[1] = <<Message("a", 1), Message("a", 3)>>

(***************************************************************************)
(* Database name claims.                                                   *)
(***************************************************************************)
AsciiAlphanumerics == { c \in NameChars : is_ascii_alphanumeric(c) }

\* C16: validate_name accepts a name exactly when each of its characters is
\* an ASCII alphanumeric, or '_' at index 0, or '.' or '-' at a later index;
\* a leading '-' or '.', a '_' after index 0 and a non-ASCII character are
\* rejected with InvalidDatabaseName.
C16_ValidateName ==
    name_result # "none" =>
        /\ name_result \in {"Ok", "InvalidDatabaseName"}
        /\ name_result = "Ok" <=>
            \A position \in 1..Len(name_input) :
                \/ name_input[position] \in AsciiAlphanumerics
                \/ (position = 1 /\ name_input[position] = "_")
                \/ (position > 1 /\ name_input[position] \in {".", "-"})
        /\ (name_input # <<>> /\ name_input[1] \in {"-", "."})
            => name_result = "InvalidDatabaseName"
        /\ (\E position \in 2..Len(name_input) : name_input[position] = "_")
            => name_result = "InvalidDatabaseName"
        /\ (\E position \in 1..Len(name_input) : name_input[position] = "U+2661")
            => name_result = "InvalidDatabaseName"

\* A name with '_' first and '.' and '-' later was accepted.
C16_Witness ==
    /\ name_input = <<"_", ".", "-">>
    /\ name_result = "Ok"

(***************************************************************************)
(* Database and schema registry claims.                                    *)
(***************************************************************************)
\* C17: the empty name is invalid: a call of create_database_with_schema
\* with it fails with InvalidDatabaseName and creates no database.
C17_EmptyNameInvalid ==
    /\ (database_call.op = "create_database" /\ database_call.name = <<>>)
        => database_call.result = "InvalidDatabaseName"
    /\ <<>> \notin available_databases

\* C18: after any sequence of create_database_with_schema and
\* delete_database calls the admin database is registered in
\* available_databases under its fixed name.
C18_AdminExists == ADMIN_DATABASE_NAME \in available_databases

\* C19: register_schema for a name already registered returns
\* SchemaAlreadyRegistered and leaves the set of registered names as it was;
\* for a new name it returns Ok and the name is registered.
C19_SchemaOnce ==
    [][(database_call'.op = "register_schema"
            /\ <<database_call, schemas>>' # <<database_call, schemas>>)
        => IF database_call'.name \in DOMAIN schemas
           THEN /\ database_call'.result = "SchemaAlreadyRegistered"
                /\ DOMAIN schemas' = DOMAIN schemas
           ELSE /\ database_call'.result = "Ok"
                /\ DOMAIN schemas' = DOMAIN schemas \cup {database_call'.name}]_vars

\* A second schema type was registered under a registered name and refused.
C19_Witness ==
    /\ database_call =
        [op |-> "register_schema", name |-> "basic",
         result |-> "SchemaAlreadyRegistered"]
    /\ DOMAIN schemas = {"admin", "basic"}

(***************************************************************************)
(* Key/value claim: set with a check.                                      *)
(***************************************************************************)
\* C20: a finished set returns NotChanged exactly when its check fails
\* against the value its final compare-and-swap observed; then it wrote no
\* entry and scheduled no expiration update (update_key_expiration is called
\* exactly when `updated` is set).  Otherwise it returns Inserted or Updated
\* and its own entry was written.
C20_SetCheck ==
    \A t \in KvTasks :
        (kvTask[t].pc = "done" /\ kvTask[t].op.command = "Set")
        => LET failed == ~should_update(kvTask[t].op.check, kvTask[t].current)
           IN  /\ (kvTask[t].output = "NotChanged") <=> failed
               /\ kvTask[t].updated <=> ~failed

\* The expiration a set that replaces `existing_value` is to store.
ExpirationOf(op, existing_value) ==
    IF op.keep_existing_expiration /\ existing_value # None
    THEN Unwrap(existing_value).expiration
    ELSE op.expiration

\* C21: the step in which a set writes its entry stores, and hands to
\* update_key_expiration, the expiration of the entry it replaces when
\* keep_existing_expiration is set and there is one, and the expiration of
\* the request otherwise, whether or not earlier attempts conflicted.
C21_KeptExpiration ==
    [][\A t \in KvTasks :
        (/\ kvTask[t].pc = "loop" /\ kvTask'[t].pc = "done"
         /\ kvTask[t].op.command = "Set"
         /\ should_update(kvTask[t].op.check, kvTask[t].current))
        => /\ kv_tree' = Some(kvTask'[t].entry)
           /\ kvTask'[t].entry.expiration
                = ExpirationOf(kvTask[t].op, kvTask[t].current)]_vars

(***************************************************************************)
(* Numeric operation claims.                                               *)
(***************************************************************************)
NumericCommands == {"Increment", "Decrement"}

\* The step in which task t returns from execute_numeric_operation.
NumericReturns(t) ==
    /\ kvTask[t].pc = "loop" /\ kvTask'[t].pc = "done"
    /\ kvTask[t].op.command \in NumericCommands

\* C22: increment or decrement on stored Bytes fails with the not-Numeric
\* error and leaves the stored entry as it is; on a missing key it stores the
\* operation applied to UnsignedInteger(0), with no expiration.
C22_NumericOperands ==
    [][\A t \in KvTasks : NumericReturns(t) =>
        LET op == kvTask[t].op
            current == kvTask[t].current
        IN  IF current = None
            THEN /\ kvTask'[t].output = "Value"
                 /\ kv_tree' = Some(Entry(
                        IF op.command = "Increment"
                        THEN increment(UnsignedInteger(0), op.amount, op.saturating)
                        ELSE decrement(UnsignedInteger(0), op.amount, op.saturating),
                        None))
            ELSE IF Unwrap(current).value.variant = "Bytes"
            THEN /\ kvTask'[t].output = "NotNumeric"
                 /\ kv_tree' = kv_tree
            ELSE kvTask'[t].output = "Value"]_vars

\* One numeric operation failed on stored Bytes, which are still stored, and
\* another had stored its result for the missing key.
C22_Witness ==
    /\ \E t \in KvTasks :
          /\ kvTask[t].pc = "done" /\ kvTask[t].output = "NotNumeric"
          /\ kvTask[t].op.command \in NumericCommands
    /\ \E t \in KvTasks :
          /\ kvTask[t].pc = "done" /\ kvTask[t].output = "Value"
          /\ kvTask[t].current = None
    /\ kv_tree # None /\ Unwrap(kv_tree).value.variant = "Bytes"

\* The exact sum or difference of the call, the stored value converted to the
\* amount's type.
ExactResult ==
    LET call == numeric_call
        existing_value == IF call.amount.variant = "Integer"
                          THEN as_i64_lossy(call.existing, call.saturating)
                          ELSE as_u64_lossy(call.existing, call.saturating)
    IN  IF call.command = "Increment" THEN existing_value + call.amount.n
        ELSE existing_value - call.amount.n
TypeMin == IF numeric_call.amount.variant = "Integer" THEN I64Min ELSE 0
TypeMax == IF numeric_call.amount.variant = "Integer" THEN I64Max ELSE U64Max

\* C23: the result of increment or decrement has the variant of the amount;
\* with saturating it is the exact result clamped to the type's range, and
\* without it is the value of the type congruent to the exact result modulo
\* 2^width.
C23_SaturatingOrWrapping ==
    numeric_result # None =>
        LET result == Unwrap(numeric_result) IN
        /\ result.variant = numeric_call.amount.variant
        /\ result.n \in TypeMin..TypeMax
        /\ IF numeric_call.saturating
           THEN result.n = IF ExactResult > TypeMax THEN TypeMax
                           ELSE IF ExactResult < TypeMin THEN TypeMin
                           ELSE ExactResult
           ELSE (result.n - ExactResult) % Pow2(IntBits) = 0

\* A saturating increment of a stored UnsignedInteger by an Integer clamped at
\* the maximum of i64.
C23_Witness ==
    /\ numeric_call.command = "Increment" /\ numeric_call.saturating
    /\ numeric_call.existing.variant = "UnsignedInteger"
    /\ numeric_call.amount.variant = "Integer"
    /\ ExactResult > I64Max
    /\ numeric_result = Some(Integer(I64Max))

\* The position in the channel's history of the last update integrated.
LastIntegrated ==
    CHOOSE n \in { exp_hist[k].serial : k \in ExpKeys } :
        \A k \in ExpKeys : exp_hist[k].serial <= n

\* C24: the completion signal of an update is sent only after the task has
\* integrated it (or dropped it in a panic); updates are integrated one at a
\* time in channel order, and the step that integrates one leaves its key
\* tracked and queued with its expiration, or neither when it has none.
C24_CompletionAfterIntegration ==
    /\ [](\A serial \in 1..sent :
            completion_sent(serial) =>
                (serial <= LastIntegrated \/ expTask.pc = "panicked"))
    /\ [][LastIntegrated' # LastIntegrated =>
            \E held \in expTask.update :
                /\ held.serial = LastIntegrated + 1
                /\ LastIntegrated' = held.serial
                /\ ~completion_sent(held.serial)
                /\ IF held.update.expiration # None
                   THEN /\ held.update.tree_key \in DOMAIN tracked_keys'
                        /\ tracked_keys'[held.update.tree_key]
                              = Unwrap(held.update.expiration)
                        /\ held.update.tree_key \in Range(expiration_order')
                   ELSE /\ held.update.tree_key \notin DOMAIN tracked_keys'
                        /\ held.update.tree_key \notin Range(expiration_order')]_vars

\* The signals of two updates were sent, the second update is integrated and
\* the task tracks a key, while the task holds no update.
C24_Witness ==
    /\ sent >= 2
    /\ completion_sent(1) /\ completion_sent(2)
    /\ LastIntegrated = 2
    /\ expTask.update = None
    /\ DOMAIN tracked_keys # {}

(***************************************************************************)
(* Lock claims.                                                            *)
(***************************************************************************)
\* C25: no thread running a storage operation holds the guards of two of the
\* locks of Data at the same time.
C25_OneLockAtATime ==
    \A t \in LockThreads : Cardinality(lock_threads[t].held) <= 1

(***************************************************************************)
(* Session id claims.                                                      *)
(***************************************************************************)
\* C26: every session id in use was allocated (it is at most
\* last_session_id), the counter never goes back, and a step that registers
\* a session registers exactly one, under the id that follows every id
\* allocated before; so no id is handed out twice, also after its session was
\* removed.
C26_SessionIdsIncrease ==
    /\ [](sessions \subseteq 1..last_session_id)
    /\ [][/\ last_session_id' >= last_session_id
          /\ (sessions' \ sessions # {}) =>
                /\ sessions' \ sessions = {last_session_id + 1}
                /\ last_session_id' = last_session_id + 1
                /\ \E h \in Handles :
                      /\ ~storage_handles[h].live
                      /\ storage_handles'[h].authentication
                            = Some(last_session_id + 1)]_vars

\* The Storage of the first session was dropped and a second session was
\* allocated: its id is 2.
C26_Witness ==
    /\ last_session_id = 2
    /\ 2 \in sessions
    /\ \A h \in Handles : storage_handles[h].authentication # Some(1)
    /\ storage_call.action = "AssumeIdentity" /\ storage_call.result = "Ok"

(***************************************************************************)
(* Request id claims.                                                      *)
(***************************************************************************)
\* The requests written to the open connection and not answered.
InFlight ==
    { request \in Requests :
        /\ results[request] = <<>>
        /\ request \in at_server \/ Payload(request) \in payloads }

\* C27: the n-th request of the client carries the id n - 1 (modulo the
\* counter's width), and no two requests in flight on the connection carry
\* the same id.
C27_UniqueOutstandingIds ==
    /\ \A i \in 1..Len(request_queue) :
          IdOf(request_queue[i])
              = (request_id - Len(request_queue) + i - 1) % (2 ^ RequestIdBits)
    /\ \A first \in InFlight, second \in InFlight :
          first # second => IdOf(first) # IdOf(second)

(***************************************************************************)
(* Page codec claims.                                                      *)
(***************************************************************************)
\* C28: what decrypt returns for the page encrypt made of a payload is the
\* payload, whatever its length and its first bytes.
C28_RoundTrip ==
    (page # None /\ decoded # None /\ Unwrap(page).from = "encrypt")
        => Unwrap(decoded) = Ok(codec_input.payload)

\* C29: without the encryption feature, decrypt of a page with the header
\* whose flags byte has bit 7 set fails with EncryptionDisabled, and decrypt
\* of a page without the four bytes of the header returns the page as it is.
C29_CompressionOnlyDecode ==
    (page # None /\ decoded # None /\ codec_input.vault.build = "compression")
        => LET bytes == Unwrap(page).bytes
               has_header == Len(bytes) >= 4 /\ SubSeq(bytes, 1, 3) = Magic
           IN  /\ (has_header /\ bytes[4] \in {"0x80", "0x81"})
                    => Unwrap(decoded) = Err("EncryptionDisabled")
               /\ ~has_header => Unwrap(decoded) = Ok(bytes)

\* Both cases: a page found on disk with the encrypted bit was refused.
C29_Witness ==
    /\ codec_input.vault.build = "compression"
    /\ page = Some([bytes |-> <<"t", "r", "v", "0x80", "0x00">>, from |-> "disk"])
    /\ decoded = Some(Err("EncryptionDisabled"))

\* A page of three bytes, too short for the header, came back as it was.
C29_WitnessRaw ==
    /\ codec_input.vault.build = "compression"
    /\ page = Some([bytes |-> Magic, from |-> "disk"])
    /\ decoded = Some(Ok(Magic))

(***************************************************************************)
(* Reconnect claims.                                                       *)
(***************************************************************************)
\* connect_and_process has returned at least once: the loop is at recv_async
\* having taken requests from the channel.  It returns only with an error
\* while the channel is open.
AfterFailure == worker.pc = "recv" /\ request_id - Len(request_queue) > 0

\* C30: after connect_and_process failed, the loop enters its next connection
\* attempt from a backoff wait, not straight from the receipt of the next
\* request.  (Time is not modelled: the delay is the state "backoff" of the
\* loop.)
C30_BackoffBeforeReconnect ==
    [][(AfterFailure /\ worker' # worker) => worker'.pc = "backoff"]_vars

(***************************************************************************)
(* Expiration order claims.                                                *)
(***************************************************************************)

\* The keys of the order are in ascending order of their tracked deadlines.
AscendingDeadlines ==
    \A i, j \in 1..Len(expiration_order) :
        i < j => tracked_keys[expiration_order[i]] <= tracked_keys[expiration_order[j]]

\* C31: between the processing steps of the task, expiration_order holds each
\* key of tracked_keys exactly once and no other key, in ascending order of the
\* tracked deadlines; a key the task has just queued stands after the keys of
\* the same deadline that were queued before it; no unwrap of the task panics.
C31_OrderMatchesTracked ==
    /\ [](/\ Range(expiration_order) = DOMAIN tracked_keys
          /\ Cardinality(Range(expiration_order)) = Len(expiration_order)
          /\ AscendingDeadlines
          /\ expTask.pc # "panicked")
    /\ [][\A held \in expTask.update :
            (expTask'.pc = "top" /\ held.update.expiration # None) =>
                \A index \in 1..Len(expiration_order') :
                    (/\ expiration_order'[index] # held.update.tree_key
                     /\ tracked_keys'[expiration_order'[index]]
                            = Unwrap(held.update.expiration))
                    => index < existing_entry_index(expiration_order',
                                                    held.update.tree_key)]_vars

\* Two keys of the same deadline are queued, the one whose update came later
\* behind the other.
C31_Witness ==
    /\ Len(expiration_order) = 2
    /\ tracked_keys[expiration_order[1]] = tracked_keys[expiration_order[2]]
    /\ exp_hist[expiration_order[1]].serial < exp_hist[expiration_order[2]].serial
    /\ expTask.pc = "timeout_recv"

\* The tracked keys whose deadline is not later than the time `at`.
Expired(at) == { k \in DOMAIN tracked_keys : tracked_keys[k] <= at }

\* C32: when the wait for the front deadline times out, the same iteration
\* pops every front entry whose deadline is <= the current time, removes
\* exactly those keys from tracked_keys and, in one batch, from the tree, and
\* removes no key whose deadline is later than the current time.
C32_TimeoutPopsExpired ==
    /\ [][(expTask.pc = "timeout_recv" /\ expTask'.pc = "remove") =>
            /\ expTask'.keys_to_remove = Expired(now)
            /\ DOMAIN tracked_keys' = DOMAIN tracked_keys \ Expired(now)
            /\ Range(expiration_order') = DOMAIN tracked_keys']_vars
    /\ [][expTask.pc = "remove" =>
            /\ key_tree' = key_tree \ expTask.keys_to_remove
            /\ expTask'.keys_to_remove = {}]_vars

\* The part of C32 that the loop keeps: what an iteration pops after a timeout
\* are the keys whose deadline is <= the time read before the wait, and no
\* popped key has a deadline later than the current time.
C32_PopsByTimeRead ==
    [][(expTask.pc = "timeout_recv" /\ expTask'.pc = "remove") =>
        /\ expTask'.keys_to_remove = Expired(expTask.now)
        /\ expTask'.keys_to_remove \subseteq Expired(now)]_vars

C33_WitnessEmpty ==
    /\ expTask.pc = "done"
    /\ expiration_order = <<>>
    /\ sent = 0

\* The senders are gone while the front deadline has passed and the task has
\* not yet looked at the channel again.
C33_WitnessPassed ==
    /\ senders = 0
    /\ expTask.pc = "try_recv"
    /\ updates = <<>>
    /\ tracked_keys[expiration_order[1]] < now

(***************************************************************************)
(* Integrity scan claims.                                                  *)
(***************************************************************************)

\* The scanner's blocking closure returns Ok in this step.
ScanReturns == scanner.pc = "scan" /\ scanner'.pc \in {"enqueue_mapper", "mark"}

\* C34: the scan computes missing = document ids minus the keys of the
\* document map when the persisted version is the view's version, and all
\* document ids when the persisted version is absent or different; when missing
\* is non-empty the new version and every missing id are written in one step,
\* when it is empty nothing is written and the scanner enqueues no Mapper.
C34_ScanInvalidatesMissing ==
    /\ [][ScanReturns =>
            LET missing ==
                    IF view_versions # None /\ Unwrap(view_versions) = ViewVersion
                    THEN { d \in 1..last_transaction_id : d \notin DOMAIN document_map }
                    ELSE 1..last_transaction_id
            IN IF missing # {}
               THEN /\ view_versions' = Some(ViewVersion)
                    /\ invalidated_docs' = invalidated_docs \cup missing
                    /\ scanner'.needs_update
               ELSE /\ UNCHANGED <<view_versions, invalidated_docs>>
                    /\ ~scanner'.needs_update]_vars
    /\ [](scanner.pc \in {"enqueue_mapper", "wait_mapper"} => scanner.needs_update)
    /\ [][(~scanner.needs_update /\ scanner.pc # "scan") =>
            (jobs'["Mapper"] = jobs["Mapper"] \/ scanner' = scanner)]_vars

\* The persisted version was current and one of two documents was mapped: the
\* scan has invalidated the other one only.
C34_Witness ==
    /\ scanner.pc = "enqueue_mapper"
    /\ scanner.executions = 1
    /\ last_transaction_id = 2
    /\ DOMAIN document_map = {1}
    /\ document_map[1] = ViewVersion
    /\ view_update_last_status = None

\* The persisted version was older: the scan has invalidated the mapped
\* document and written the view's version.
C34_WitnessVersion ==
    /\ scanner.pc = "enqueue_mapper"
    /\ DOMAIN document_map = {1}
    /\ document_map[1] # ViewVersion
    /\ 1 \in invalidated_docs
    /\ view_versions = Some(ViewVersion)

\* Every document was mapped by the current version: the scan wrote nothing and
\* goes on to mark the view.
C34_WitnessNothingMissing ==
    /\ scanner.pc = "mark"
    /\ ~scanner.needs_update
    /\ last_transaction_id > 0
    /\ invalidated_docs = {}

\* The execution of the scanner ends with an error in this step.
ScannerFails == scanner.pc \in {"scan", "wait_mapper"} /\ scanner'.pc = "off"

\* C35: the view is marked complete only by a scanner that has finished its
\* scan and, when the scan invalidated entries, has received Ok from the Mapper
\* it awaited; a failing scan or Mapper marks nothing and its error reaches the
\* handles of the scanner's job; a marked view stays marked.
C35_MarkedAfterScan ==
    /\ [][(~completed_integrity_checks /\ completed_integrity_checks') =>
            scanner.pc = "mark"]_vars
    /\ [][(scanner.pc # "mark" /\ scanner'.pc = "mark") =>
            \/ scanner.pc = "scan" /\ ~scanner'.needs_update
            \/ /\ scanner.pc = "wait_mapper"
               /\ scanner.needs_update
               /\ scanner.received # None
               /\ Unwrap(scanner.received).ok]_vars
    /\ [][ScannerFails =>
            /\ completed_integrity_checks' = completed_integrity_checks
            /\ \A c \in Callers :
                (caller[c].pc = "wait_scan" /\ caller[c].received = None) =>
                    caller'[c].received = Some(JobErr)]_vars
    /\ [][completed_integrity_checks => completed_integrity_checks']_vars

\* The view is marked by a scanner whose scan invalidated entries and whose
\* Mapper has finished.
C35_Witness ==
    /\ completed_integrity_checks
    /\ scanner.pc = "finish"
    /\ scanner.needs_update
    /\ scanner.executions = 1
    /\ view_update_last_status # None

\* The Mapper the scanner awaited failed: the scanner's job is over, the view
\* is not marked and a caller has the error.
C35_WitnessFailed ==
    /\ ~completed_integrity_checks
    /\ scanner.pc = "off"
    /\ scanner.executions = 1
    /\ view_versions = Some(ViewVersion)
    /\ invalidated_docs # {}
    /\ \E c \in Callers : caller[c].pc = "failed"

(***************************************************************************)
(* update_view_if_needed claims.                                           *)
(***************************************************************************)

\* The caller enqueues a job in this step.
EnqueuesScan(c) == caller[c].pc = "enqueue_scan" /\ caller'[c].pc = "wait_scan"
EnqueuesMapper(c) == caller[c].pc = "enqueue_mapper" /\ caller'[c].pc = "wait_mapper"

\* C36: a call that finds the view in completed_integrity_checks enqueues no
\* IntegrityScanner; a call that reads no last transaction id, or a recorded
\* last-indexed id >= the id it read, enqueues no Mapper; any other call
\* enqueues a Mapper again after every Mapper that returned a smaller id than
\* the id read at the start, and returns after the first that did not.
C36_EnqueuesOnlyWhenNeeded ==
    /\ [][\A c \in Callers :
            /\ (caller[c].pc = "idle" /\ completed_integrity_checks
                    /\ caller'[c] # caller[c])
                => (caller'[c].pc = "read_tx" /\ jobs' = jobs)
            /\ (caller[c].pc = "read_tx" /\ last_transaction_id = 0
                    /\ caller'[c] # caller[c])
                => (caller'[c].pc = "returned" /\ jobs' = jobs)
            /\ (/\ caller[c].pc = "check_status"
                /\ view_update_last_status # None
                /\ Unwrap(view_update_last_status) >= caller[c].current_transaction_id
                /\ caller'[c] # caller[c])
                => (caller'[c].pc = "returned" /\ jobs' = jobs)
            /\ (caller[c].pc = "wait_mapper" /\ caller'[c].pc # "wait_mapper"
                    /\ Unwrap(caller[c].received).ok)
                => /\ caller'[c].pc =
                        IF Unwrap(caller[c].received).id
                                >= caller[c].current_transaction_id
                        THEN "returned" ELSE "enqueue_mapper"
                   /\ caller'[c].current_transaction_id
                        = caller[c].current_transaction_id
            /\ (EnqueuesMapper(c) \/ caller[c].pc = "check_status")
                => caller'[c].current_transaction_id
                        = caller[c].current_transaction_id]_vars
    /\ [][(jobs'["IntegrityScan"] = "queued" /\ jobs["IntegrityScan"] # "queued")
            => \E c \in Callers : EnqueuesScan(c)]_vars
    /\ [][(jobs'["Mapper"] = "queued" /\ jobs["Mapper"] # "queued")
            => \/ \E c \in Callers : EnqueuesMapper(c)
               \/ scanner.pc = "enqueue_mapper"]_vars
    /\ [](\A c \in Callers :
            caller[c].pc \in {"enqueue_scan", "wait_scan"} =>
                caller[c].current_transaction_id = 0)
    /\ [](\A c \in Callers :
            caller[c].pc \in {"enqueue_mapper", "wait_mapper"} =>
                caller[c].current_transaction_id > 0)

\* A caller that read a transaction id has received from the Mapper it awaited
\* the id of an earlier transaction: it is about to enqueue a Mapper again.
C36_Witness ==
    \E c \in Callers :
        /\ caller[c].pc = "wait_mapper"
        /\ caller[c].received # None
        /\ Unwrap(caller[c].received).ok
        /\ Unwrap(caller[c].received).id < caller[c].current_transaction_id
        /\ last_transaction_id = caller[c].current_transaction_id

\* A caller returned without a Mapper: the recorded id covered the id it read.
C36_WitnessCurrent ==
    \E c \in Callers :
        /\ caller[c].pc = "check_status"
        /\ view_update_last_status = Some(caller[c].current_transaction_id)
        /\ jobs["Mapper"] = "none"

(***************************************************************************)
(* Id-less response claims.                                                *)
(***************************************************************************)

\* The subscriber map is the same except, maybe, under `id`.
SameSubscribersBut(id) ==
    /\ DOMAIN client_subscribers' \ {id} = DOMAIN client_subscribers \ {id}
    /\ \A other \in DOMAIN client_subscribers \ {id} :
        client_subscribers'[other] = client_subscribers[other]

\* C37: a payload without an id leaves the outstanding-request table and the
\* responders alone; a MessageReceived is appended to the queue registered
\* under its subscriber id, a subscriber whose send fails is removed from the
\* map, an unknown subscriber id is ignored; an Api response goes to the
\* callback registered under its name; any other response changes nothing.
C37_IdlessFrame ==
    [][adhoc'.count # adhoc.count =>
        LET wrapped == Unwrap(adhoc'.last).wrapped IN
        /\ Unwrap(adhoc'.last).id = None
        /\ UNCHANGED <<outstanding_requests, results, reader, worker>>
        /\ IF wrapped.kind = "MessageReceived"
           THEN /\ api_responses' = api_responses
                /\ SameSubscribersBut(wrapped.subscriber_id)
                /\ IF wrapped.subscriber_id \notin DOMAIN client_subscribers
                   THEN wrapped.subscriber_id \notin DOMAIN client_subscribers'
                   ELSE IF client_subscribers[wrapped.subscriber_id].connected
                   THEN client_subscribers'[wrapped.subscriber_id] =
                            [connected |-> TRUE,
                             queue |-> Append(
                                client_subscribers[wrapped.subscriber_id].queue,
                                [topic |-> wrapped.topic,
                                 payload |-> wrapped.payload])]
                   ELSE wrapped.subscriber_id \notin DOMAIN client_subscribers'
           ELSE IF wrapped.kind = "Api"
           THEN /\ client_subscribers' = client_subscribers
                /\ \A name \in DOMAIN api_responses :
                    api_responses'[name] =
                        IF name = wrapped.name /\ name = "api"
                        THEN api_responses[name] + 1
                        ELSE api_responses[name]
           ELSE UNCHANGED <<client_subscribers, api_responses>>]_vars

\* While a request is outstanding, a message has been queued for the
\* registered subscriber and the request is still outstanding.
C37_Witness ==
    /\ adhoc.last = Some(MessageReceived(1))
    /\ 1 \in DOMAIN client_subscribers
    /\ Len(client_subscribers[1].queue) = 1
    /\ DOMAIN outstanding_requests # {}
    /\ reader = "running"

\* The callback of the custom api has received a response while a request is
\* outstanding.
C37_WitnessApi ==
    /\ adhoc.last = Some(ApiResponse("api"))
    /\ api_responses["api"] = 1
    /\ DOMAIN outstanding_requests # {}

\* A subscriber that had a message queued is no longer registered after a
\* later message: its receiver was dropped and the send failed.
C37_WitnessEvicted ==
    /\ adhoc.last = Some(MessageReceived(1))
    /\ adhoc.count = 2
    /\ 1 \notin DOMAIN client_subscribers
    /\ api_responses["api"] = 0

(***************************************************************************)
(* Database list claims.                                                   *)
(***************************************************************************)

\* C38: after any sequence of create_database_with_schema and delete_database
\* calls, names differing only in ASCII case included, the names
\* list_databases returns from available_databases are the names of the
\* database records stored in the admin database, and are what
\* cache_available_databases rebuilds when the storage is opened again.
C38_ListMatchesRecords ==
    /\ available_databases = database_records
    /\ available_databases = cache_available_databases(database_records)

\* The second half of C38: a create or delete that returns an error leaves
\* the in-memory names and the stored records as they were.  (The deletion of
\* the admin database is left out: its result is not determined.)
C38_FailedCallsChangeNothing ==
    [][(/\ database_call' # database_call
        /\ database_call'.op \in {"create_database", "delete_database"}
        /\ database_call'.name # ADMIN_DATABASE_NAME
        /\ database_call'.result # "Ok"
        /\ available_databases = database_records)
        => UNCHANGED <<available_databases, database_records>>]_vars

(***************************************************************************)
(* Responder registration claims.                                          *)
(***************************************************************************)

\* C39: on a connection, the responder of a request is in the
\* outstanding-request table before the reader can process a response that
\* carries the request's id, for the request that caused the connect and for
\* the later ones: the reader never finds a response id without a responder.
C39_ResponderBeforeResponse ==
    /\ reader # "panicked"
    /\ reader = "running" =>
        \A payload \in payloads : payload.id \in DOMAIN outstanding_requests

\* The part of C39 about the later requests: process_requests writes a request
\* and registers its responder in one step under the table's lock.
C39_LaterRequestsRegistered ==
    [][(worker.pc = "process" /\ at_server' # at_server /\ written' # written) =>
        \A request \in at_server' \ at_server :
            /\ IdOf(request) \in DOMAIN outstanding_requests'
            /\ outstanding_requests'[IdOf(request)] = request]_vars

(***************************************************************************)
(* Operations racing to the expiration task.                               *)
(***************************************************************************)

\* Every operation has sent its update and the task has integrated them all.
RaceSettled ==
    /\ \A c \in RaceCallers : kv_pending[c] = None
    /\ updates = <<>>
    /\ expTask.pc \in {"recv", "timeout_recv"}

\* The expiration of the entry stored under the key, None when there is no
\* entry.
StoredExpiration(k) == IF k \in key_tree THEN kv_expiration[k] ELSE None

\* C40: whatever the interleaving of the concurrent set, delete and
\* get-with-delete operations on one full key, once their updates are
\* integrated the task tracks the key with the expiration of the entry finally
\* stored, and not at all when that entry has no expiration or the key is
\* absent; the task never removes an entry whose stored expiration is None or
\* later than the current time.
C40_TrackedMatchesStored ==
    /\ [](RaceSettled =>
            IF StoredExpiration(RaceKey) # None
            THEN /\ RaceKey \in DOMAIN tracked_keys
                 /\ tracked_keys[RaceKey] = Unwrap(StoredExpiration(RaceKey))
            ELSE RaceKey \notin DOMAIN tracked_keys)
    /\ [][(expTask.pc = "remove" /\ RaceKey \in key_tree /\ RaceKey \notin key_tree') =>
            /\ kv_expiration[RaceKey] # None
            /\ Unwrap(kv_expiration[RaceKey]) <= now]_vars

\* The same statement for operations that do not overlap: each sends its
\* update before the next one writes, and the task removes what it collected
\* before the next one writes.
C40_SerialOperations ==
    (/\ Cardinality({ c \in RaceCallers : kv_pending[c] # None }) = 0
     /\ updates = <<>>
     /\ expTask.pc \in {"recv", "timeout_recv"}
     /\ sent = 1)
    => (IF StoredExpiration(RaceKey) # None
        THEN /\ RaceKey \in DOMAIN tracked_keys
             /\ tracked_keys[RaceKey] = Unwrap(StoredExpiration(RaceKey))
        ELSE RaceKey \notin DOMAIN tracked_keys)

====
